---- MODULE Spec2Model ----
(***************************************************************************)
(* Nomad agents: the Kathy channel tasks that dispatch to a shared home    *)
(* under home_lock (agents/kathy/src/kathy.rs), the agents' main           *)
(* functions, and the settings-driven assembly of the AgentCore            *)
(* (nomad-base/src/settings/mod.rs).                                       *)
(***************************************************************************)
EXTENDS Integers, Sequences, FiniteSets, TLC

(***************************************************************************)
(* Bounds of the model.                                                    *)
(***************************************************************************)
\* Number of Kathy channels (one per enabled replica of the agent).
NumChannels == 2
\* Longest OrderedList of messages an agent is configured with.
MaxMsgs == 3

\* Largest finality a chain is configured with.
MaxFinality == 1

Channels == 1..NumChannels

(***************************************************************************)
(* Option<T>: None is the empty sequence, Some(x) the one-element one.     *)
(***************************************************************************)
None == << >>
Some(x) == << x >>
IsSome(o) == Len(o) = 1
Unwrap(o) == o[1]

SeqsUpTo(S, n) == UNION { [1..k -> S] : k \in 0..n }

(***************************************************************************)
(* Strings are sequences of Unicode code points; String::as_bytes /        *)
(* String -> Vec<u8> gives their UTF-8 encoding (one byte below U+0080,    *)
(* two bytes below U+0800).                                                *)
(***************************************************************************)
Utf8Char(c) ==
    IF c < 128 THEN << c >> ELSE << 192 + (c \div 64), 128 + (c % 64) >>

RECURSIVE as_bytes(_)
as_bytes(s) ==
    IF s = << >> THEN << >> ELSE Utf8Char(Head(s)) \o as_bytes(Tail(s))

\* The message strings the configurations of the model draw from: "hi", "e-acute".
Messages == { << 104, 105 >>, << 233 >> }

(***************************************************************************)
(* ChatGenerator (kathy.rs:133-201).  One record shape for the four        *)
(* variants; a variant ignores the fields it does not have.                *)
(***************************************************************************)
\* H256::default(), the all-zero recipient.
H256Zero == 0
\* The recipients a Static generator of the model is configured with.
StaticRecipients == { 1 }
\* The values H256::random() is drawn from in the model.
H256Random == { 2, 3 }
\* The sample of the Alphanumeric distribution: 'a', 'Z', '7'.
Alphanumeric == { 97, 90, 55 }

GenDefault ==
    [kind |-> "Default", recipient |-> H256Zero, message |-> << >>,
     messages |-> << >>, counter |-> 0, length |-> 0]
GenStatic(r, m) ==
    [kind |-> "Static", recipient |-> r, message |-> m,
     messages |-> << >>, counter |-> 0, length |-> 0]
GenOrderedList(ms) ==
    [kind |-> "OrderedList", recipient |-> H256Zero, message |-> << >>,
     messages |-> ms, counter |-> 0, length |-> 0]
GenRandom(l) ==
    [kind |-> "Random", recipient |-> H256Zero, message |-> << >>,
     messages |-> << >>, counter |-> 0, length |-> l]

\* rand_string(length): every string of that length over the sample.
rand_string_short(length) == [1..(length - 1) -> Alphanumeric]

rand_string(length) == [1..length -> Alphanumeric]

\* gen_recipient(&mut self): the set of values the call may return.
gen_recipient_default(g) == { H256Zero }

gen_recipient(g) ==
    CASE g.kind = "Default" -> { H256Zero }
      [] g.kind = "Static" -> { g.recipient }
      [] g.kind = "OrderedList" -> { H256Zero }
      [] g.kind = "Random" -> H256Random

\* The OrderedList arm of gen_chat: the exhaustion test, the clone of the message
\* under the cursor, the cursor's increment.
OrderedListNextStuck(g) ==
    IF g.counter >= Len(g.messages)
    THEN [body |-> None, gen |-> g]
    ELSE [body |-> Some(as_bytes(g.messages[g.counter + 1])), gen |-> g]

OrderedListNextWraps(g) ==
    IF g.counter >= Len(g.messages)
    THEN [body |-> None, gen |-> [g EXCEPT !.counter = 0]]
    ELSE [body |-> Some(as_bytes(g.messages[g.counter + 1])),
          gen |-> [g EXCEPT !.counter = @ + 1]]

OrderedListNext(g) ==
    IF g.counter >= Len(g.messages)
    THEN [body |-> None, gen |-> g]
    ELSE [body |-> Some(as_bytes(g.messages[g.counter + 1])),
          gen |-> [g EXCEPT !.counter = @ + 1]]

\* gen_chat(&mut self): the set of outcomes [body: Option<Vec<u8>>, gen: self after].
gen_chat(g) ==
    CASE g.kind = "Default" -> { [body |-> Some(<< >>), gen |-> g] }
      [] g.kind = "Static" -> { [body |-> Some(as_bytes(g.message)), gen |-> g] }
      [] g.kind = "OrderedList" -> { OrderedListNext(g) }
      [] g.kind = "Random" ->
            { [body |-> Some(as_bytes(s)), gen |-> g] : s \in rand_string(g.length) }

(***************************************************************************)
(* Settings (settings/mod.rs): chains, signers, timelag.                   *)
(***************************************************************************)
\* settings.home.name, and the names replicas are configured under.
HomeName == "ethereum"
ReplicaNames == { "moonbeam", "polygon" }
\* ChainSetup.finality, a u8.
Finalities == 0..MaxFinality

\* ChainSetup: the fields assembly reads.  disabled is TRUE when the marker is there.
ChainSetups == [name : ReplicaNames, finality : Finalities, disabled : BOOLEAN]

\* A HashMap is a function on its key set.
Maps(K, V) == UNION { [D -> V] : D \in SUBSET K }

\* The AWS regions of the model; the last is no region Region::from_str knows.
Regions == { "us-west-2", "eu-west-1", "nowhere" }
ValidRegion(r) == r \in { "us-west-2", "eu-west-1" }

\* SignerConf: HexKey {key}, Aws {id, region}, Node.  key_valid says whether the
\* key parses as a private key.
SignerHexKey(valid) == [type |-> "hexKey", key_valid |-> valid, region |-> ""]
SignerAws(region) == [type |-> "aws", key_valid |-> FALSE, region |-> region]
SignerNode == [type |-> "node", key_valid |-> FALSE, region |-> ""]
SignerConfs ==
    { SignerHexKey(v) : v \in BOOLEAN } \cup { SignerAws(r) : r \in Regions }
        \cup { SignerNode }

\* Signers::Local and Signers::Aws (which holds the shared client, so its region).
SignersLocal == [kind |-> "Local", region |-> ""]
SignersAws(region) == [kind |-> "Aws", region |-> region]

\* KMS_CLIENT.get_or_init(|| KmsClient::new_with_client(.., region.parse()
\* .expect("invalid region"))): the closure runs only while the cell is empty, and
\* a closure that panics leaves the cell empty.  created says the closure built
\* a client.
get_or_init_always(kms, region) ==
    IF ValidRegion(region)
    THEN [res |-> "ok", client |-> Some(region), created |-> TRUE]
    ELSE [res |-> "panic", client |-> None, created |-> FALSE]

get_or_init_rebinds(kms, region) ==
    IF IsSome(kms)
    THEN [res |-> "ok", created |-> FALSE,
          client |-> IF ValidRegion(region) THEN Some(region) ELSE kms]
    ELSE IF ValidRegion(region)
    THEN [res |-> "ok", client |-> Some(region), created |-> TRUE]
    ELSE [res |-> "panic", client |-> None, created |-> FALSE]

get_or_init(kms, region) ==
    IF IsSome(kms)
    THEN [res |-> "ok", client |-> kms, created |-> FALSE]
    ELSE IF ValidRegion(region)
    THEN [res |-> "ok", client |-> Some(region), created |-> TRUE]
    ELSE [res |-> "panic", client |-> None, created |-> FALSE]

\* let signer = AwsSigner::new(client, id, 0).await?; Ok(Signers::Aws(signer)),
\* with c what get_or_init returned: the cell keeps the client either way.
AwsSignerNewKeepsOnSuccess(c, kms, aws_ok) ==
    IF aws_ok
    THEN [res |-> "ok", signer |-> Some(SignersAws(Unwrap(c.client))),
          kms |-> c.client, created |-> c.created]
    ELSE [res |-> "err", signer |-> None, kms |-> kms, created |-> FALSE]

AwsSignerNew(c, kms, aws_ok) ==
    IF aws_ok
    THEN [res |-> "ok", signer |-> Some(SignersAws(Unwrap(c.client))),
          kms |-> c.client, created |-> c.created]
    ELSE [res |-> "err", signer |-> None, kms |-> c.client, created |-> c.created]

\* SignerConf::Node => bail!("Node signer")
NodeSignerOnceClient(kms) ==
    IF IsSome(kms)
    THEN [res |-> "ok", signer |-> Some(SignersAws(Unwrap(kms))), kms |-> kms,
          created |-> FALSE]
    ELSE [res |-> "err", signer |-> None, kms |-> kms, created |-> FALSE]

NodeSigner(kms) == [res |-> "err", signer |-> None, kms |-> kms, created |-> FALSE]

\* SignerConf::try_into_signer.  kms is KMS_CLIENT before the call, aws_ok
\* whether AwsSigner::new succeeds.  res is "ok", "err" or "panic".
try_into_signer(conf, kms, aws_ok) ==
    CASE conf.type = "hexKey" ->
            IF conf.key_valid
            THEN [res |-> "ok", signer |-> Some(SignersLocal), kms |-> kms,
                  created |-> FALSE]
            ELSE [res |-> "err", signer |-> None, kms |-> kms, created |-> FALSE]
      [] conf.type = "aws" ->
            LET c == get_or_init(kms, conf.region)
            IN  IF c.res = "panic"
                THEN [res |-> "panic", signer |-> None, kms |-> kms, created |-> FALSE]
                ELSE AwsSignerNew(c, kms, aws_ok)
      [] conf.type = "node" -> NodeSigner(kms)

\* A get_signer that would refuse a chain without an entry in signers.
get_signer_required(s, name, kms, aws_ok) ==
    IF name \notin DOMAIN s.signers
    THEN [res |-> "panic", signer |-> None, kms |-> kms]
    ELSE LET r == try_into_signer(s.signers[name], kms, aws_ok)
         IN  [res |-> r.res, signer |-> r.signer, kms |-> r.kms]

\* Settings::get_signer: None for an unknown name, and .ok() of the resolution.
get_signer(s, name, kms, aws_ok) ==
    IF name \notin DOMAIN s.signers
    THEN [res |-> "ok", signer |-> None, kms |-> kms]
    ELSE LET r == try_into_signer(s.signers[name], kms, aws_ok)
         IN  IF r.res = "panic"
             THEN [res |-> "panic", signer |-> None, kms |-> r.kms]
             ELSE [res |-> "ok", signer |-> r.signer, kms |-> r.kms]

\* IndexSettings::timelag_on
timelag_on(s) == s.use_timelag

\* Settings::home_timelag
home_timelag(s) == IF timelag_on(s) THEN Some(s.home.finality) ELSE None

\* Settings::replica_timelag; the caller has checked replica_name is a key.
replica_timelag_of_home(s, replica_name) ==
    IF timelag_on(s) THEN Some(s.home.finality) ELSE None

replica_timelag(s, replica_name) ==
    IF timelag_on(s) THEN Some(s.replicas[replica_name].finality) ELSE None

\* replica_timelag's expect("!replica")
replica_timelag_panics(s, replica_name) ==
    timelag_on(s) /\ replica_name \notin DOMAIN s.replicas

(***************************************************************************)
(* State.                                                                  *)
(***************************************************************************)
VARIABLES
    \* Kathy agent (kathy.rs)
    agent_generator,      \* Kathy.generator
    home_lock,            \* Kathy.home_lock: the set of tasks holding a guard
    channel,              \* channel[c]: Option<KathyChannel> built for replica c
    pc,                   \* pc[c]: where channel c's task is
    message,              \* message[c]: Option<Message> the task is dispatching
    messages_dispatched,  \* the counter labelled (home, replica c, "kathy")
    home_log,             \* home_log[c]: the messages the home accepted from c
    home_rejected,        \* home_rejected[c]: the dispatch calls of c the home rejected
    task_result,          \* task_result[c]: "running", "ok" or "err"
    run_all_result,       \* what run_all's handle resolves to
    exit_status,          \* what main returns
    \* Settings and the assembly of the AgentCore (settings/mod.rs)
    settings,             \* the loaded Settings
    kms_client,           \* KMS_CLIENT: Option<region the client was created with>
    core_pc,              \* where try_into_core is
    core_steps,           \* the steps try_into_core has run, in order
    core_result,          \* "pending", "ok", "err" or "panic"
    core_error,           \* the step whose error try_into_core returned
    built_home,           \* Option<CachingHome>: `home` of try_into_core
    built_replicas,       \* `result` of try_caching_replicas: name -> CachingReplica
    todo,                 \* the keys the loop of try_caching_replicas has yet to visit
    agent_core,           \* Option<AgentCore>: what try_into_core returned
    \* A process resolving signers (SignerConf::try_into_signer)
    signer_log,           \* the resolutions made so far, in order
    \* A ChatGenerator drawn from repeatedly (kathy.rs:133-201)
    generator,            \* the generator, as the draws left it
    draws,                \* what each draw returned: [body, recipient]
    \* <Agent>Settings::new (macros.rs:160-206)
    agent_name,           \* stringify!($name)
    config,               \* the config::Config the sources are merged into
    sources_merged,       \* how many of the four sources have been merged
    new_result,           \* "pending", "ok", "err" or "panic"
    loaded_index,         \* Option<IndexSettings> of the settings new() returned
    \* cancel_task! on a channel task's handle (macros.rs:1-12)
    cancel_pc,            \* cancel_pc[c]: "idle", "aborted" or "returned"
    dropped_at,           \* dropped_at[c]: the await at which c's future was dropped, or "none"
    \* The indexer's arguments (settings/mod.rs:437-438) and the ContractSync it drives
    indexer_args,                \* the IndexSettings, and what from() and chunk_size() returned
    contract_sync         \* the ContractSync, its chain and its EventStore

kathyVars ==
    << agent_generator, home_lock, channel, pc, message, messages_dispatched,
       home_log, home_rejected, task_result, run_all_result, exit_status >>

coreVars ==
    << settings, kms_client, core_pc, core_steps, core_result, core_error,
       built_home, built_replicas, todo, agent_core >>

auxVars ==
    << signer_log, generator, draws, agent_name, config, sources_merged,
       new_result, loaded_index, cancel_pc, dropped_at, indexer_args, contract_sync >>

vars == << kathyVars, coreVars, auxVars >>

\* No signer has been resolved outside an assembly.
SignerIdle == signer_log = << >>

\* No generator is being drawn from outside a channel.
GeneratorIdle == generator = GenDefault /\ draws = << >>

\* <Agent>Settings::new is not running.
LoadIdle ==
    /\ agent_name = "Kathy"
    /\ config = [data_types |-> None, use_timelag |-> None]
    /\ sources_merged = 0
    /\ new_result = "pending"
    /\ loaded_index = None

\* No channel task's handle has been given to cancel_task!.
CancelIdle ==
    /\ cancel_pc = [c \in Channels |-> "idle"]
    /\ dropped_at = [c \in Channels |-> "none"]

\* No indexer is being made outside an assembly.
IndexIdle ==
    indexer_args = [settings |-> [from |-> None, chunk |-> None], pc |-> "off",
             from |-> None, chunk_size |-> None]

\* No ContractSync is running.
SyncIdle ==
    contract_sync = [pc |-> "off"]

(***************************************************************************)
(* Kathy: construction.                                                    *)
(***************************************************************************)
\* The generators an agent of the model is configured with (settings.chat).
Generators ==
    { GenOrderedList(ms) : ms \in SeqsUpTo(Messages, MaxMsgs) }
        \cup { GenStatic(r, m) : r \in StaticRecipients, m \in Messages }
        \cup { GenDefault }

\* Kathy::build_channel: the channel gets a clone of the agent's generator.
build_channel_of_live_generator(replica) ==
    [generator |-> IF \E d \in Channels : IsSome(channel[d])
                   THEN Unwrap(channel[CHOOSE d \in Channels : IsSome(channel[d])]).generator
                   ELSE agent_generator,
     replica |-> replica]

build_channel(replica) == [generator |-> agent_generator, replica |-> replica]

\* Kathy::new, before run_all has built any channel.
KathyInit ==
    /\ agent_generator \in Generators
    /\ home_lock = {}
    /\ channel = [c \in Channels |-> None]
    /\ pc = [c \in Channels |-> "unspawned"]
    /\ message = [c \in Channels |-> None]
    /\ messages_dispatched = [c \in Channels |-> 0]
    /\ home_log = [c \in Channels |-> << >>]
    /\ home_rejected = [c \in Channels |-> 0]
    /\ task_result = [c \in Channels |-> "running"]
    /\ run_all_result = "running"
    /\ exit_status = "running"

(***************************************************************************)
(* Kathy: one channel's task (Kathy::run).                                 *)
(***************************************************************************)
\* run_all builds the channel of replica c and spawns its task.
Spawn(c) ==
    /\ pc[c] = "unspawned"
    /\ channel' = [channel EXCEPT ![c] = Some(build_channel(c))]
    /\ pc' = [pc EXCEPT ![c] = "draw"]
    /\ UNCHANGED << agent_generator, home_lock, message, messages_dispatched,
                    home_log, home_rejected, task_result, run_all_result, exit_status,
                    coreVars, auxVars >>

\* Top of the loop: gen_chat, gen_recipient, the match on msg.  The guard on
\* home_log only keeps the run of an endless generator finite.
Draw(c) ==
    /\ pc[c] = "draw"
    /\ Len(home_log[c]) <= MaxMsgs
    /\ \E o \in gen_chat(Unwrap(channel[c]).generator) :
       \E r \in gen_recipient(o.gen) :
          /\ channel' = [channel EXCEPT ![c] = Some([Unwrap(@) EXCEPT !.generator = o.gen])]
          /\ IF IsSome(o.body)
             THEN /\ message' = [message EXCEPT ![c] =
                        Some([destination |-> c, recipient |-> r, body |-> Unwrap(o.body)])]
                  /\ pc' = [pc EXCEPT ![c] = "lock"]
                  /\ UNCHANGED task_result
             ELSE /\ message' = [message EXCEPT ![c] = None]
                  /\ pc' = [pc EXCEPT ![c] = "done"]
                  /\ task_result' = [task_result EXCEPT ![c] = "ok"]
    /\ UNCHANGED << agent_generator, home_lock, messages_dispatched, home_log, home_rejected,
                    run_all_result, exit_status,
                    coreVars, auxVars >>

\* Mutex::lock resolves only while no guard is out.
LockAlwaysAvailable == TRUE

LockAvailable == home_lock = {}

\* let guard = home_lock.lock().await
Lock(c) ==
    /\ pc[c] = "lock"
    /\ LockAvailable
    /\ home_lock' = home_lock \cup {c}
    /\ pc' = [pc EXCEPT ![c] = "dispatch"]
    /\ UNCHANGED << agent_generator, channel, message, messages_dispatched,
                    home_log, home_rejected, task_result, run_all_result, exit_status,
                    coreVars, auxVars >>

\* home.dispatch(&message).await returned Ok.
DispatchOk(c) ==
    /\ pc[c] = "dispatch"
    /\ home_log' = [home_log EXCEPT ![c] = Append(@, Unwrap(message[c]))]
    /\ pc' = [pc EXCEPT ![c] = "inc"]
    /\ UNCHANGED << agent_generator, home_lock, channel, message, messages_dispatched,
                    home_rejected, task_result, run_all_result, exit_status,
                    coreVars, auxVars >>

\* The guard's drop: the lock no longer counts c among its holders.
GuardLeaked(c) == home_lock

GuardDropped(c) == home_lock \ {c}

\* The `?` return leaves the scope of guard, which drops it.
GuardLeakedOnError(c) == home_lock

GuardDroppedOnError(c) == home_lock \ {c}

\* home.dispatch(&message).await returned Err: `?` returns it from the task.
DispatchErrCounted(c) ==
    /\ pc[c] = "dispatch"
    /\ home_lock' = GuardDroppedOnError(c)
    /\ pc' = [pc EXCEPT ![c] = "done"]
    /\ task_result' = [task_result EXCEPT ![c] = "err"]
    /\ message' = [message EXCEPT ![c] = None]
    /\ home_rejected' = [home_rejected EXCEPT ![c] = @ + 1]
    /\ messages_dispatched' = [messages_dispatched EXCEPT ![c] = @ + 1]
    /\ UNCHANGED << agent_generator, channel, home_log,
                    run_all_result, exit_status,
                    coreVars, auxVars >>

DispatchErr(c) ==
    /\ pc[c] = "dispatch"
    /\ home_lock' = GuardDroppedOnError(c)
    /\ pc' = [pc EXCEPT ![c] = "done"]
    /\ task_result' = [task_result EXCEPT ![c] = "err"]
    /\ message' = [message EXCEPT ![c] = None]
    /\ home_rejected' = [home_rejected EXCEPT ![c] = @ + 1]
    /\ UNCHANGED << agent_generator, channel, messages_dispatched, home_log,
                    run_all_result, exit_status,
                    coreVars, auxVars >>

\* messages_dispatched.inc()
Inc(c) ==
    /\ pc[c] = "inc"
    /\ messages_dispatched' = [messages_dispatched EXCEPT ![c] = @ + 1]
    /\ pc' = [pc EXCEPT ![c] = "drop"]
    /\ UNCHANGED << agent_generator, home_lock, channel, message, home_log, home_rejected,
                    task_result, run_all_result, exit_status,
                    coreVars, auxVars >>

\* drop(guard), then the task reaches sleep(..).await
DropGuardSkipsSleep(c) ==
    /\ pc[c] = "drop"
    /\ home_lock' = GuardDropped(c)
    /\ message' = [message EXCEPT ![c] = None]
    /\ pc' = [pc EXCEPT ![c] = "draw"]
    /\ UNCHANGED << agent_generator, channel, messages_dispatched, home_log, home_rejected,
                    task_result, run_all_result, exit_status,
                    coreVars, auxVars >>

DropGuard(c) ==
    /\ pc[c] = "drop"
    /\ home_lock' = GuardDropped(c)
    /\ message' = [message EXCEPT ![c] = None]
    /\ pc' = [pc EXCEPT ![c] = "sleep"]
    /\ UNCHANGED << agent_generator, channel, messages_dispatched, home_log, home_rejected,
                    task_result, run_all_result, exit_status,
                    coreVars, auxVars >>

\* sleep(Duration::from_secs(interval)).await is over; the loop repeats.
Wake(c) ==
    /\ pc[c] = "sleep"
    /\ pc' = [pc EXCEPT ![c] = "draw"]
    /\ UNCHANGED << agent_generator, home_lock, channel, message, messages_dispatched,
                    home_log, home_rejected, task_result, run_all_result, exit_status,
                    coreVars, auxVars >>

ChannelStep(c) ==
    \/ Spawn(c)
    \/ Draw(c)
    \/ Lock(c)
    \/ DispatchOk(c)
    \/ DispatchErr(c)
    \/ Inc(c)
    \/ DropGuard(c)
    \/ Wake(c)

(***************************************************************************)
(* Kathy: run_all and main.                                                *)
(***************************************************************************)
\* run_all's aggregate: a success only if every channel task succeeded.
Aggregate == IF \A c \in Channels : task_result[c] = "ok" THEN "ok" ELSE "err"

\* run_all awaits all channel tasks, then resolves to the aggregate.
RunAllJoin ==
    /\ run_all_result = "running"
    /\ \A c \in Channels : pc[c] = "done"
    /\ run_all_result' = Aggregate
    /\ UNCHANGED << agent_generator, home_lock, channel, pc, message,
                    messages_dispatched, home_log, home_rejected, task_result, exit_status,
                    coreVars, auxVars >>

\* main's last expression: agent.run_all().await? (Kathy), and
\* agent.run_all().await??; Ok(()) (Processor): the task's own Result is main's.
MainResultIgnoresTask(r) == "ok"

MainResult(r) == IF r = "ok" THEN "ok" ELSE "err"

MainExit ==
    /\ exit_status = "running"
    /\ run_all_result # "running"
    /\ exit_status' = MainResult(run_all_result)
    /\ UNCHANGED << agent_generator, home_lock, channel, pc, message,
                    messages_dispatched, home_log, home_rejected, task_result, run_all_result,
                    coreVars, auxVars >>

KathyNext ==
    \/ \E c \in Channels : ChannelStep(c)
    \/ RunAllJoin
    \/ MainExit

\* try_into_core is not running.
CoreIdle ==
    /\ settings = [use_timelag |-> FALSE, home |-> [name |-> HomeName, finality |-> 0],
                   replicas |-> << >>, signers |-> << >>]
    /\ kms_client = None
    /\ core_pc = "idle"
    /\ core_steps = << >>
    /\ core_result = "pending"
    /\ core_error = "none"
    /\ built_home = None
    /\ built_replicas = << >>
    /\ todo = {}
    /\ agent_core = None

InitKathy == KathyInit /\ CoreIdle /\ SignerIdle /\ GeneratorIdle /\ LoadIdle /\ CancelIdle
    /\ IndexIdle /\ SyncIdle

SpecKathy == InitKathy /\ [][KathyNext]_vars

\* The runtime polls every task that can make progress; a dispatch call returns.
FairSpecKathy ==
    /\ SpecKathy
    /\ \A c \in Channels : WF_vars(ChannelStep(c))
    /\ WF_vars(RunAllJoin)
    /\ WF_vars(MainExit)

(***************************************************************************)
(* Assembly of one chain (settings/mod.rs:288-392, 419-471).               *)
(* e holds what the world outside answers during one chain's construction: *)
(* aws1, aws2 whether AwsSigner::new succeeds in the first and the second  *)
(* get_signer, into whether try_into_home / try_into_replica succeeds, and *)
(* make what the indexer's construction does ("panic": the domain is no    *)
(* integer; "err": the address does not parse or make_*_indexer fails).    *)
(* An answer is drawn only where the call is made.                         *)
(***************************************************************************)
AwsOutcomes(s, name) ==
    IF name \in DOMAIN s.signers /\ s.signers[name].type = "aws" THEN BOOLEAN ELSE {TRUE}

ChainEnvs(s, name) ==
    [aws1 : AwsOutcomes(s, name), into : BOOLEAN, aws2 : AwsOutcomes(s, name),
     make : {"ok", "err", "panic"}]

Failed(res, kms) == [res |-> res, value |-> None, kms |-> kms]

\* Settings::try_home
try_home(s, kms, e) ==
    LET g == get_signer(s, s.home.name, kms, e.aws1)
    IN  IF g.res = "panic" THEN Failed("panic", g.kms)
        ELSE IF ~e.into THEN Failed("err", g.kms)
        ELSE [res |-> "ok", kms |-> g.kms,
              value |-> Some([name |-> s.home.name, signer |-> g.signer,
                              timelag |-> home_timelag(s)])]

\* Settings::try_home_indexer
try_home_indexer(s, kms, e) ==
    LET g == get_signer(s, s.home.name, kms, e.aws2)
    IN  IF g.res = "panic" THEN Failed("panic", g.kms)
        ELSE IF e.make # "ok" THEN Failed(e.make, g.kms)
        ELSE [res |-> "ok", kms |-> g.kms,
              value |-> Some([name |-> s.home.name, signer |-> g.signer,
                              timelag |-> home_timelag(s)])]

\* Settings::try_home_contract_sync
try_home_contract_sync(s, kms, e) ==
    LET i == try_home_indexer(s, kms, e)
    IN  IF i.res # "ok" THEN i
        ELSE [res |-> "ok", kms |-> i.kms,
              value |-> Some([name |-> s.home.name, indexer |-> Unwrap(i.value),
                              finality |-> s.home.finality])]

\* Settings::try_caching_home
try_caching_home(s, kms, e) ==
    LET h == try_home(s, kms, e)
    IN  IF h.res # "ok" THEN h
        ELSE LET c == try_home_contract_sync(s, h.kms, e)
             IN  IF c.res # "ok" THEN c
                 ELSE [res |-> "ok", kms |-> c.kms,
                       value |-> Some([home |-> Unwrap(h.value),
                                       contract_sync |-> Unwrap(c.value)])]

\* Settings::try_replica
try_replica(s, replica_name, kms, e) ==
    IF replica_name \notin DOMAIN s.replicas THEN Failed("panic", kms)
    ELSE
    LET replica_setup == s.replicas[replica_name]
        g == get_signer(s, replica_name, kms, e.aws1)
    IN  IF g.res = "panic" THEN Failed("panic", g.kms)
        ELSE IF replica_timelag_panics(s, replica_name) THEN Failed("panic", g.kms)
        ELSE IF ~e.into THEN Failed("err", g.kms)
        ELSE [res |-> "ok", kms |-> g.kms,
              value |-> Some([name |-> replica_setup.name, signer |-> g.signer,
                              timelag |-> replica_timelag(s, replica_name)])]

\* Settings::try_replica_indexer
try_replica_indexer(s, setup, kms, e) ==
    LET g == get_signer(s, setup.name, kms, e.aws2)
    IN  IF g.res = "panic" THEN Failed("panic", g.kms)
        ELSE IF replica_timelag_panics(s, setup.name) THEN Failed("panic", g.kms)
        ELSE IF e.make # "ok" THEN Failed(e.make, g.kms)
        ELSE [res |-> "ok", kms |-> g.kms,
              value |-> Some([name |-> setup.name, signer |-> g.signer,
                              timelag |-> replica_timelag(s, setup.name)])]

\* Settings::try_replica_contract_sync
try_replica_contract_sync(s, replica_name, kms, e) ==
    IF replica_name \notin DOMAIN s.replicas THEN Failed("panic", kms)
    ELSE
    LET replica_setup == s.replicas[replica_name]
        i == try_replica_indexer(s, replica_setup, kms, e)
    IN  IF i.res # "ok" THEN i
        ELSE [res |-> "ok", kms |-> i.kms,
              value |-> Some([name |-> replica_setup.name, indexer |-> Unwrap(i.value),
                              finality |-> s.replicas[replica_name].finality])]

\* Settings::try_caching_replica
try_caching_replica(s, replica_name, kms, e) ==
    LET r == try_replica(s, replica_name, kms, e)
    IN  IF r.res # "ok" THEN r
        ELSE LET c == try_replica_contract_sync(s, replica_name, r.kms, e)
             IN  IF c.res # "ok" THEN c
                 ELSE [res |-> "ok", kms |-> c.kms,
                       value |-> Some([replica |-> Unwrap(r.value),
                                       contract_sync |-> Unwrap(c.value)])]

(***************************************************************************)
(* Settings::try_into_core and Settings::try_caching_replicas.             *)
(***************************************************************************)
\* The signer configurations the settings of an assembly are drawn from.
CoreSignerConfs ==
    { SignerHexKey(v) : v \in BOOLEAN } \cup { SignerAws("us-west-2"), SignerNode }

SettingsSet ==
    [use_timelag : BOOLEAN,
     home : [name : {HomeName}, finality : Finalities],
     replicas : Maps(ReplicaNames, ChainSetups),
     signers : Maps({HomeName} \cup ReplicaNames, CoreSignerConfs)]

\* try_into_core(name) has been called on loaded settings.
CoreInit ==
    /\ settings \in SettingsSet
    /\ kms_client = None
    /\ core_pc = "metrics"
    /\ core_steps = << >>
    /\ core_result = "pending"
    /\ core_error = "none"
    /\ built_home = None
    /\ built_replicas = << >>
    /\ todo = {}
    /\ agent_core = None

\* The `?` after a step: go on only when it succeeded.
PropagateIgnored(outcome, next) == next

Propagate(outcome, next) == IF outcome = "ok" THEN next ELSE "done"

\* One step of try_into_core ran with `outcome`; a failure is what the call returns.
CoreStep(step, outcome, next, error) ==
    /\ core_steps' = Append(core_steps, step)
    /\ core_pc' = Propagate(outcome, next)
    /\ core_result' = IF outcome = "ok" THEN core_result ELSE outcome
    /\ core_error' = IF outcome = "ok" THEN core_error ELSE error

\* CoreMetrics::new(..)?  ("panic": the metrics port is no u16.)
CoreMetrics ==
    /\ core_pc = "metrics"
    /\ \E o \in {"ok", "err", "panic"} : CoreStep("metrics", o, "db", "metrics")
    /\ UNCHANGED << settings, kms_client, built_home, built_replicas, todo, agent_core,
                    kathyVars, auxVars >>

\* DB::from_path(&self.db)?
CoreDb ==
    /\ core_pc = "db"
    /\ \E o \in {"ok", "err"} : CoreStep("db", o, "home", "db")
    /\ UNCHANGED << settings, kms_client, built_home, built_replicas, todo, agent_core,
                    kathyVars, auxVars >>

\* .filter(|(_, v)| v.disabled.is_none())
AllReplicas(s) == DOMAIN s.replicas

EnabledReplicas(s) == { k \in DOMAIN s.replicas : ~s.replicas[k].disabled }

\* self.try_caching_home(..).await?; then try_caching_replicas starts its loop.
CoreHome ==
    /\ core_pc = "home"
    /\ \E e \in ChainEnvs(settings, settings.home.name) :
          LET r == try_caching_home(settings, kms_client, e)
          IN  /\ CoreStep("home", r.res, "replicas", "home")
              /\ kms_client' = r.kms
              /\ built_home' = r.value
    /\ todo' = EnabledReplicas(settings)
    /\ UNCHANGED << settings, built_replicas, agent_core, kathyVars, auxVars >>

\* if k != &v.name { bail!(..) }
KeyNeverChecked(k, v) == TRUE

KeyMatchesName(k, v) == k = v.name

\* result.insert(name, value)
Insert(m, name, value) ==
    [x \in DOMAIN m \cup {name} |-> IF x = name THEN value ELSE m[x]]

\* One turn of the loop of try_caching_replicas, for the key the iterator yields.
CoreReplica ==
    /\ core_pc = "replicas"
    /\ \E k \in todo :
          LET v == settings.replicas[k]
          IN  /\ todo' = todo \ {k}
              /\ IF ~KeyMatchesName(k, v)
                 THEN /\ CoreStep("replica", "err", "replicas", "config")
                      /\ UNCHANGED << kms_client, built_replicas >>
                 ELSE \E e \in ChainEnvs(settings, k) :
                        LET r == try_caching_replica(settings, k, kms_client, e)
                        IN  /\ CoreStep("replica", r.res, "replicas", "replica")
                            /\ kms_client' = r.kms
                            /\ built_replicas' =
                                  IF r.res = "ok"
                                  THEN Insert(built_replicas, v.name, Unwrap(r.value))
                                  ELSE built_replicas
    /\ UNCHANGED << settings, built_home, agent_core, kathyVars, auxVars >>

\* The loop is over: Ok(result), and try_into_core returns Ok(AgentCore {..}).
CoreAssemble ==
    /\ core_pc = "replicas"
    /\ todo = {}
    /\ core_steps' = Append(core_steps, "assemble")
    /\ agent_core' = Some([home |-> Unwrap(built_home), replicas |-> built_replicas])
    /\ core_result' = "ok"
    /\ core_pc' = "done"
    /\ UNCHANGED << settings, kms_client, core_error, built_home, built_replicas, todo,
                    kathyVars, auxVars >>

CoreNext ==
    \/ CoreMetrics
    \/ CoreDb
    \/ CoreHome
    \/ CoreReplica
    \/ CoreAssemble

\* The Kathy agent is not built yet.
KathyIdle ==
    /\ agent_generator = GenDefault
    /\ home_lock = {}
    /\ channel = [c \in Channels |-> None]
    /\ pc = [c \in Channels |-> "unspawned"]
    /\ message = [c \in Channels |-> None]
    /\ messages_dispatched = [c \in Channels |-> 0]
    /\ home_log = [c \in Channels |-> << >>]
    /\ home_rejected = [c \in Channels |-> 0]
    /\ task_result = [c \in Channels |-> "running"]
    /\ run_all_result = "running"
    /\ exit_status = "running"

InitCore == CoreInit /\ KathyIdle /\ SignerIdle /\ GeneratorIdle /\ LoadIdle /\ CancelIdle
    /\ IndexIdle /\ SyncIdle

SpecCore == InitCore /\ [][CoreNext]_vars

(***************************************************************************)
(* A process that resolves the signers of its settings, one call of        *)
(* Settings::get_signer after another, from whichever task asks.  A panic  *)
(* ends the task that made the call, not the process.                      *)
(***************************************************************************)
\* Most resolutions one run of the process makes.
MaxResolutions == 3

ChainNames == {HomeName} \cup ReplicaNames

\* The settings of such a process: only signers matters.
SignerSettingsSet ==
    [use_timelag : {FALSE},
     home : [name : {HomeName}, finality : {0}],
     replicas : { << >> },
     signers : Maps(ChainNames, SignerConfs)]

SignerInit ==
    /\ settings \in SignerSettingsSet
    /\ kms_client = None
    /\ signer_log = << >>
    /\ core_pc = "idle"
    /\ core_steps = << >>
    /\ core_result = "pending"
    /\ core_error = "none"
    /\ built_home = None
    /\ built_replicas = << >>
    /\ todo = {}
    /\ agent_core = None

\* self.signers.get(name)?.try_into_signer().await.ok(), for a configured name.
\* The log keeps what try_into_signer returned (res, signer), what get_signer
\* made of it (got), and KMS_CLIENT before and after.
ResolveSigner(name) ==
    /\ Len(signer_log) < MaxResolutions
    /\ name \in DOMAIN settings.signers
    /\ \E aws_ok \in AwsOutcomes(settings, name) :
          LET conf == settings.signers[name]
              r == try_into_signer(conf, kms_client, aws_ok)
              g == get_signer(settings, name, kms_client, aws_ok)
          IN  /\ kms_client' = g.kms
              /\ signer_log' = Append(signer_log,
                    [name |-> name, conf |-> conf, aws_ok |-> aws_ok,
                     res |-> r.res, signer |-> r.signer, got |-> g.signer,
                     created |-> r.created,
                     kms_before |-> kms_client, kms_after |-> r.kms])
    /\ UNCHANGED << settings, core_pc, core_steps, core_result, core_error, built_home,
                    built_replicas, todo, agent_core, kathyVars,
                    generator, draws, agent_name, config, sources_merged, new_result,
                    loaded_index, cancel_pc, dropped_at, indexer_args, contract_sync >>

SignerNext == \E name \in ChainNames : ResolveSigner(name)

InitSigner == SignerInit /\ KathyIdle /\ GeneratorIdle /\ LoadIdle /\ CancelIdle
    /\ IndexIdle /\ SyncIdle

SpecSigner == InitSigner /\ [][SignerNext]_vars

(***************************************************************************)
(* A ChatGenerator drawn from again and again, as the loop of Kathy::run   *)
(* does (gen_chat, then gen_recipient), also past its exhaustion.          *)
(***************************************************************************)
\* Largest length a Random generator is configured with.
MaxLen == 2
\* Most draws from a Random generator in one run.
MaxRandomDraws == 2

\* Most draws from a generator in one run: two past the longest list.
MaxDraws(g) == IF g.kind = "Random" THEN MaxRandomDraws ELSE MaxMsgs + 2

\* The generators drawn from: those of an agent, and Random of every length.
DrawnGenerators == Generators \cup { GenRandom(l) : l \in 0..MaxLen }

GeneratorInit ==
    /\ generator \in DrawnGenerators
    /\ draws = << >>

\* let msg = generator.gen_chat(); let recipient = generator.gen_recipient();
DrawChat ==
    /\ Len(draws) < MaxDraws(generator)
    /\ \E o \in gen_chat(generator) :
       \E r \in gen_recipient(o.gen) :
          /\ generator' = o.gen
          /\ draws' = Append(draws, [body |-> o.body, recipient |-> r])
    /\ UNCHANGED << kathyVars, coreVars, signer_log, agent_name, config, sources_merged,
                    new_result, loaded_index, cancel_pc, dropped_at, indexer_args, contract_sync >>

GeneratorNext == DrawChat

InitGenerator ==
    GeneratorInit /\ KathyIdle /\ CoreIdle /\ SignerIdle /\ LoadIdle /\ CancelIdle
    /\ IndexIdle /\ SyncIdle

SpecGenerator == InitGenerator /\ [][GeneratorNext]_vars

(***************************************************************************)
(* <Agent>Settings::new (macros.rs:160-206): the four sources merged in    *)
(* order, the merged configuration deserialised, then the policy of the    *)
(* agent kind written over index.data_types and index.use_timelag.         *)
(***************************************************************************)
IndexDataTypes == { "Updates", "UpdatesAndMessages" }

\* stringify!($name) of the agents, and of a settings type declared for no agent.
AgentNames == { "Kathy", "Updater", "Relayer", "Processor", "Watcher", "Other" }

\* The merges of new(): base file, partial file, OPT_BASE, OPT_<AGENT>.
NumSources == 4

\* What one source says of the index settings; None is a key it does not hold.
SourceValues ==
    [data_types : {None} \cup { Some(d) : d \in IndexDataTypes },
     use_timelag : {None} \cup { Some(b) : b \in BOOLEAN }]

\* Config::merge: the keys of the later source override.
merge(c, source) ==
    [data_types |-> IF IsSome(source.data_types) THEN source.data_types ELSE c.data_types,
     use_timelag |-> IF IsSome(source.use_timelag) THEN source.use_timelag
                     ELSE c.use_timelag]

\* s.try_into(): a key no source holds gets its #[serde(default)].
try_into(c) ==
    [data_types |-> IF IsSome(c.data_types) THEN Unwrap(c.data_types) ELSE "Updates",
     use_timelag |-> IF IsSome(c.use_timelag) THEN Unwrap(c.use_timelag) ELSE FALSE]

\* Settings::set_index_data_types
set_index_data_types(index, data_types) == [index EXCEPT !.data_types = data_types]

\* Settings::set_use_timelag
set_use_timelag_ignored(index, use_timelag) == index

set_use_timelag(index, use_timelag) == [index EXCEPT !.use_timelag = use_timelag]

\* match std::stringify!($name) { .. }: None is the panic of the last arm.
AgentOverride(name, index) ==
    CASE name = "Kathy" ->
            Some(set_use_timelag(set_index_data_types(index, "Updates"), FALSE))
      [] name = "Updater" ->
            Some(set_use_timelag(set_index_data_types(index, "Updates"), TRUE))
      [] name = "Relayer" ->
            Some(set_use_timelag(set_index_data_types(index, "Updates"), FALSE))
      [] name = "Processor" ->
            Some(set_use_timelag(set_index_data_types(index, "UpdatesAndMessages"), TRUE))
      [] name = "Watcher" ->
            Some(set_use_timelag(set_index_data_types(index, "Updates"), FALSE))
      [] OTHER -> None

\* new() has been entered: let mut s = config::Config::new().
LoadInit ==
    /\ agent_name \in AgentNames
    /\ config = [data_types |-> None, use_timelag |-> None]
    /\ sources_merged = 0
    /\ new_result = "pending"
    /\ loaded_index = None

\* s.merge(..)?: the next source is merged, or its error is what new() returns.
MergeSource ==
    /\ new_result = "pending"
    /\ sources_merged < NumSources
    /\ \E source \in SourceValues, ok \in BOOLEAN :
          IF ok
          THEN /\ config' = merge(config, source)
               /\ sources_merged' = sources_merged + 1
               /\ UNCHANGED new_result
          ELSE /\ new_result' = "err"
               /\ UNCHANGED << config, sources_merged >>
    /\ UNCHANGED << agent_name, loaded_index, kathyVars, coreVars, signer_log, generator,
                    draws, cancel_pc, dropped_at, indexer_args, contract_sync >>

\* let settings_res = s.try_into(); let mut settings = settings_res?;
Deserialize ==
    /\ new_result = "pending"
    /\ sources_merged = NumSources
    /\ loaded_index = None
    /\ \E ok \in BOOLEAN :
          IF ok
          THEN /\ loaded_index' = Some(try_into(config))
               /\ UNCHANGED new_result
          ELSE /\ new_result' = "err"
               /\ UNCHANGED loaded_index
    /\ UNCHANGED << agent_name, config, sources_merged, kathyVars, coreVars, signer_log,
                    generator, draws, cancel_pc, dropped_at, indexer_args, contract_sync >>

\* The match on the agent's name, then Ok(settings).
ApplyPolicy ==
    /\ new_result = "pending"
    /\ IsSome(loaded_index)
    /\ LET o == AgentOverride(agent_name, Unwrap(loaded_index))
       IN  IF IsSome(o)
           THEN loaded_index' = o /\ new_result' = "ok"
           ELSE loaded_index' = None /\ new_result' = "panic"
    /\ UNCHANGED << agent_name, config, sources_merged, kathyVars, coreVars, signer_log,
                    generator, draws, cancel_pc, dropped_at, indexer_args, contract_sync >>

LoadNext ==
    \/ MergeSource
    \/ Deserialize
    \/ ApplyPolicy

InitLoad == LoadInit /\ KathyIdle /\ CoreIdle /\ SignerIdle /\ GeneratorIdle /\ CancelIdle
    /\ IndexIdle /\ SyncIdle

SpecLoad == InitLoad /\ [][LoadNext]_vars

(***************************************************************************)
(* cancel_task! (macros.rs:1-12) applied to the handles of the channel     *)
(* tasks: t.abort(), then t.await.  An aborted task that is suspended at   *)
(* an await is never polled again: the runtime drops its future, and with  *)
(* it the locals of the async block of Kathy::run, the guard among them.   *)
(* A task that is being polled when it is aborted runs on to its next      *)
(* await.  The handles are with the canceller, so nothing else joins them. *)
(***************************************************************************)
\* The awaits of Kathy::run: home_lock.lock(), home.dispatch(..), sleep(..).
Suspended(c) == pc[c] \in {"lock", "dispatch", "sleep"}
\* A task that was spawned or woken and waits for the runtime to poll it.
Scheduled(c) == pc[c] = "draw"

\* The task's future has completed or has been dropped.
TaskFinishedAlready(c) == TRUE

TaskFinished(c) == pc[c] \in {"done", "cancelled"}

\* let t = $task.into_inner(); t.abort();
Abort(c) ==
    /\ cancel_pc[c] = "idle"
    /\ pc[c] # "unspawned"
    /\ cancel_pc' = [cancel_pc EXCEPT ![c] = "aborted"]
    /\ UNCHANGED << kathyVars, coreVars, signer_log, generator, draws, agent_name, config,
                    sources_merged, new_result, loaded_index, dropped_at, indexer_args, contract_sync >>

\* The drop of `guard` (kathy.rs:112) with the future that owns it.
GuardLeakedOnAbort(c) == home_lock

GuardDroppedOnAbort(c) == home_lock \ {c}

\* The runtime drops the future of an aborted task instead of polling it.
TaskCancelled(c) ==
    /\ cancel_pc[c] = "aborted"
    /\ Suspended(c) \/ Scheduled(c)
    /\ home_lock' = GuardDroppedOnAbort(c)
    /\ pc' = [pc EXCEPT ![c] = "cancelled"]
    /\ task_result' = [task_result EXCEPT ![c] = "cancelled"]
    /\ message' = [message EXCEPT ![c] = None]
    /\ dropped_at' = [dropped_at EXCEPT ![c] = pc[c]]
    /\ UNCHANGED << agent_generator, channel, messages_dispatched, home_log, home_rejected,
                    run_all_result, exit_status, coreVars, signer_log, generator, draws,
                    agent_name, config, sources_merged, new_result, loaded_index,
                    cancel_pc, indexer_args, contract_sync >>

\* t.await; its value is dropped with the block (#[allow(unused_must_use)]).
CancelAwait(c) ==
    /\ cancel_pc[c] = "aborted"
    /\ TaskFinished(c)
    /\ cancel_pc' = [cancel_pc EXCEPT ![c] = "returned"]
    /\ UNCHANGED << kathyVars, coreVars, signer_log, generator, draws, agent_name, config,
                    sources_merged, new_result, loaded_index, dropped_at, indexer_args, contract_sync >>

\* A step of the task itself: none once it was aborted at an await.
LiveChannelStep(c) ==
    /\ ~(cancel_pc[c] = "aborted" /\ Suspended(c))
    /\ ChannelStep(c)

CancelNext ==
    \E c \in Channels :
        \/ LiveChannelStep(c)
        \/ Abort(c)
        \/ TaskCancelled(c)
        \/ CancelAwait(c)

\* Longest list of an agent whose channel tasks are cancelled.
MaxCancelMsgs == 1
MaxTextLen == 2

\* The generators of such an agent: lists of one message, repeated.
CancelGenerators ==
    { GenOrderedList(ms) : ms \in SeqsUpTo({ << 104, 105 >> }, MaxCancelMsgs) }

InitCancel ==
    /\ KathyInit
    /\ agent_generator \in CancelGenerators
    /\ CancelIdle /\ CoreIdle /\ SignerIdle /\ GeneratorIdle /\ LoadIdle
    /\ IndexIdle /\ SyncIdle

SpecCancel == InitCancel /\ [][CancelNext]_vars

\* What the runtime does with a task that is ready: poll it, or drop it if it
\* was aborted.
TaskProgress(c) == LiveChannelStep(c) \/ TaskCancelled(c)

\* The runtime gets to every task that stays ready; a dispatch call returns.
\* Whether and when a task is aborted is left open.
FairSpecCancel ==
    /\ SpecCancel
    /\ \A c \in Channels : WF_vars(TaskProgress(c))

(***************************************************************************)
(* Properties of the Kathy channels.                                       *)
(***************************************************************************)
HoldsGuard(c) == c \in home_lock
InDispatch(c) == pc[c] = "dispatch"
IsOrderedList == agent_generator.kind = "OrderedList"
ListLen == Len(agent_generator.messages)
\* The bodies of the first n messages of the configured list, in order.
ListBodies(n) == [i \in 1..n |-> as_bytes(agent_generator.messages[i])]
LogBodies(c) == [i \in 1..Len(home_log[c]) |-> home_log[c][i].body]

\* C1: at most one channel is inside home.dispatch at any time; a channel inside
\* home.dispatch holds home_lock, and no two channels hold home_lock together.
C1_MutualExclusion ==
    /\ \A c, d \in Channels : (InDispatch(c) /\ InDispatch(d)) => c = d
    /\ \A c \in Channels : InDispatch(c) => HoldsGuard(c)
    /\ Cardinality(home_lock) <= 1

\* One channel is inside home.dispatch while another waits for the lock.
C1_Witness ==
    \E c, d \in Channels : c # d /\ InDispatch(c) /\ pc[d] = "lock"

\* C2: a channel that is drawing, waiting for the lock, sleeping or finished
\* does not hold home_lock; it holds it exactly from the lock's acquisition to
\* drop(guard), which precedes the sleep.
C2_CriticalSectionIsDispatchOnly ==
    \A c \in Channels : HoldsGuard(c) <=> pc[c] \in {"dispatch", "inc", "drop"}

\* A channel sleeps after a dispatch of its own while another channel holds the lock.
C2_Witness ==
    \E c, d \in Channels :
        /\ c # d
        /\ pc[c] = "sleep"
        /\ Len(home_log[c]) >= 1
        /\ HoldsGuard(d)

\* C3: a channel with an OrderedList of N messages never has more than N
\* messages accepted by the home, what the home accepted is a prefix of the
\* list in order, and once its task has ended with no dispatch rejected it
\* ended Ok with exactly the N messages dispatched and its counter at N.
C3_OrderedListRun ==
    IsOrderedList =>
        \A c \in Channels :
            /\ Len(home_log[c]) <= ListLen
            /\ messages_dispatched[c] <= ListLen
            /\ LogBodies(c) = ListBodies(Len(home_log[c]))
            /\ (pc[c] = "done" /\ home_rejected[c] = 0) =>
                  /\ task_result[c] = "ok"
                  /\ Len(home_log[c]) = ListLen
                  /\ messages_dispatched[c] = ListLen
                  /\ Unwrap(channel[c]).generator.counter = ListLen

\* The spec's case: a list of 3 messages, all dispatched, the task ended Ok.
C3_Witness ==
    /\ IsOrderedList
    /\ ListLen = 3
    /\ \E c \in Channels :
          /\ pc[c] = "done"
          /\ task_result[c] = "ok"
          /\ Len(home_log[c]) = 3
          /\ messages_dispatched[c] = 3

\* What of channel d a step leaves alone.
ChannelState(d) ==
    << channel[d], pc[d], message[d], messages_dispatched[d], home_log[d],
       home_rejected[d], task_result[d] >>

\* C4: a channel whose dispatch the home rejected has ended with the error and
\* holds no lock; the step that ends it changes nothing of any other channel;
\* and every other channel of an agent with a finite list then runs to its own
\* end, with all of its messages dispatched unless the home rejected one of its own.
C4_DispatchErrorIsolated ==
    /\ [](\A c \in Channels :
            task_result[c] = "err" =>
                (pc[c] = "done" /\ ~HoldsGuard(c) /\ home_rejected[c] = 1))
    /\ [][\A c \in Channels :
            (task_result[c] # "err" /\ task_result'[c] = "err") =>
                \A d \in Channels \ {c} : ChannelState(d)' = ChannelState(d)]_vars
    /\ (IsOrderedList /\ \E c \in Channels : task_result[c] = "err") ~>
            (\A d \in Channels :
                pc[d] = "done" /\ (home_rejected[d] = 0 => Len(home_log[d]) = ListLen))

\* After channel c failed, another channel is inside home.dispatch, the lock its own.
C4_Witness ==
    \E c, d \in Channels :
        /\ c # d
        /\ task_result[c] = "err"
        /\ InDispatch(d)
        /\ HoldsGuard(d)

\* C5: run_all's result and main's are a success exactly when every channel
\* task ended Ok, and neither is there before every channel task has ended.
C5_AggregateResult ==
    /\ run_all_result # "running" =>
          /\ \A c \in Channels : pc[c] = "done"
          /\ run_all_result = "ok" <=> \A c \in Channels : task_result[c] = "ok"
    /\ exit_status # "running" =>
          /\ \A c \in Channels : pc[c] = "done"
          /\ exit_status = "ok" <=> \A c \in Channels : task_result[c] = "ok"

\* main returned the failure of one channel after another channel ran to its end.
C5_Witness ==
    /\ exit_status = "err"
    /\ \E c, d \in Channels :
          /\ task_result[c] = "err"
          /\ task_result[d] = "ok"
          /\ Len(home_log[d]) >= 1

(***************************************************************************)
(* Properties of the assembly of the AgentCore.                            *)
(***************************************************************************)
ConfiguredReplicas == DOMAIN settings.replicas
KeyMismatch(k) == settings.replicas[k].name # k
IsEnabled(k) == ~settings.replicas[k].disabled
EnabledKeys == { k \in ConfiguredReplicas : IsEnabled(k) }
SomeKeyMismatch == \E k \in ConfiguredReplicas : KeyMismatch(k)
SomeEnabledKeyMismatch == \E k \in EnabledKeys : KeyMismatch(k)
CoreFailed == core_result \in {"err", "panic"}
Last(q) == q[Len(q)]

\* C6, as claimed: whenever some key of the replica map differs from the name in
\* its ChainSetup, assembly fails and returns no AgentCore.
C6_AnyKeyMismatchFails ==
    SomeKeyMismatch => (core_result # "ok" /\ agent_core = None)

\* C6, amended: whenever some key of an enabled replica differs from the name in
\* its ChainSetup, assembly returns no AgentCore and, unless another step or an
\* earlier replica's construction failed first, ends with the key-mismatch
\* configuration error; that error is returned for no other reason, and no
\* replica is ever constructed under a key that differs from its name.
C6_EnabledKeyMismatchFails ==
    /\ SomeEnabledKeyMismatch =>
          /\ core_result # "ok"
          /\ agent_core = None
          /\ (core_pc = "done" /\ core_error \notin {"metrics", "db", "home", "replica"}) =>
                (core_result = "err" /\ core_error = "config")
    /\ core_error = "config" => (SomeEnabledKeyMismatch /\ core_result = "err")
    /\ \A n \in DOMAIN built_replicas :
          n \in EnabledKeys /\ ~KeyMismatch(n) /\ built_replicas[n].replica.name = n

\* The mismatch stopped assembly after another replica had been constructed.
C6_Witness ==
    /\ core_pc = "done"
    /\ core_result = "err"
    /\ core_error = "config"
    /\ built_replicas # << >>
    /\ agent_core = None

\* The order try_into_core runs its steps in.
StepRank(step) ==
    CASE step = "metrics" -> 1
      [] step = "db" -> 2
      [] step = "home" -> 3
      [] step = "replica" -> 4
      [] step = "assemble" -> 5

StepsInOrder ==
    /\ \A i \in 1..Len(core_steps) :
          IF i <= 3 THEN StepRank(core_steps[i]) = i ELSE StepRank(core_steps[i]) >= 4
    /\ \A i \in 1..Len(core_steps) : core_steps[i] = "assemble" => i = Len(core_steps)
    /\ Cardinality({ i \in 1..Len(core_steps) : core_steps[i] = "replica" })
          <= Cardinality(EnabledKeys)

\* C7: the steps run in the order metrics, db, home, replicas, assembly, each at
\* most once (a replica turn at most once per enabled replica); once a step has
\* failed the call has returned that step's error, the failed step is the last
\* one run, and there is no AgentCore; an AgentCore is there only after the
\* assembly step.
C7_StepsInOrderFailFast ==
    /\ StepsInOrder
    /\ CoreFailed =>
          /\ core_pc = "done"
          /\ agent_core = None
          /\ core_steps # << >>
          /\ core_error = (IF Last(core_steps) = "replica" /\ core_error = "config"
                           THEN "config" ELSE Last(core_steps))
    /\ ~CoreFailed => core_error = "none"
    /\ IsSome(agent_core) <=> (core_result = "ok" /\ core_pc = "done")
    /\ core_result = "ok" => Last(core_steps) = "assemble"

\* The home's construction failed with replicas still to build: nothing ran after it.
C7_Witness ==
    /\ core_result = "err"
    /\ core_error = "home"
    /\ core_steps = << "metrics", "db", "home" >>
    /\ core_pc = "done"
    /\ EnabledKeys # {}

\* C8: a disabled replica is never constructed, and after a successful
\* assembly the keys of AgentCore.replicas are exactly the names of the
\* configured replicas without a disabled marker, each under its own name.
C8_ReplicaMapIsEnabledReplicas ==
    /\ DOMAIN built_replicas \subseteq EnabledKeys
    /\ core_result = "ok" =>
          /\ IsSome(agent_core)
          /\ DOMAIN Unwrap(agent_core).replicas = { settings.replicas[k].name : k \in EnabledKeys }
          /\ DOMAIN Unwrap(agent_core).replicas = EnabledKeys
          /\ \A n \in EnabledKeys : Unwrap(agent_core).replicas[n].replica.name = n

\* A successful assembly of a configuration with an enabled and a disabled replica.
C8_Witness ==
    /\ core_result = "ok"
    /\ EnabledKeys # {}
    /\ \E k \in ConfiguredReplicas : ~IsEnabled(k)

\* The timelag of a chain of finality f under the settings.
OwnTimelag(f) == IF settings.use_timelag THEN << f >> ELSE << >>

\* C9: the timelag the home and its indexer are built with is none when timelag
\* is off and the home's finality when it is on; the timelag replica r and its
\* indexer are built with is none when timelag is off and r's own finality when
\* it is on.
C9_TimelagIsOwnFinality ==
    /\ IsSome(built_home) =>
          /\ Unwrap(built_home).home.timelag = OwnTimelag(settings.home.finality)
          /\ Unwrap(built_home).contract_sync.indexer.timelag
                = OwnTimelag(settings.home.finality)
    /\ \A n \in DOMAIN built_replicas :
          /\ built_replicas[n].replica.timelag = OwnTimelag(settings.replicas[n].finality)
          /\ built_replicas[n].contract_sync.indexer.timelag
                = OwnTimelag(settings.replicas[n].finality)

\* Timelag is on and a replica was built whose finality is not the home's.
C9_Witness ==
    /\ settings.use_timelag
    /\ \E n \in DOMAIN built_replicas :
          /\ settings.replicas[n].finality # settings.home.finality
          /\ built_replicas[n].replica.timelag = << settings.replicas[n].finality >>

\* C10, as claimed: no home and no replica is assembled whose configured signer
\* failed to resolve (a chain with an entry in signers is built with a signer).
C10_SignerErrorIsFatal ==
    /\ (IsSome(built_home) /\ settings.home.name \in DOMAIN settings.signers) =>
          IsSome(Unwrap(built_home).home.signer)
    /\ \A n \in DOMAIN built_replicas :
          n \in DOMAIN settings.signers => IsSome(built_replicas[n].replica.signer)

(***************************************************************************)
(* Properties of signer resolution.                                        *)
(***************************************************************************)
Resolutions == 1..Len(signer_log)
IsRemote(e) == e.conf.type = "aws"
\* The resolutions whose get_or_init closure built a client.
Creations == { i \in Resolutions : signer_log[i].created }
\* The remote resolutions among the first j whose configured region parses.
ParsableRemote(j) ==
    { i \in 1..j : IsRemote(signer_log[i]) /\ ValidRegion(signer_log[i].conf.region) }
\* The region configured for the first of them, if there is one.
FirstRegion(j) ==
    IF ParsableRemote(j) = {} THEN None
    ELSE Some(signer_log[CHOOSE i \in ParsableRemote(j) :
                            \A k \in ParsableRemote(j) : i <= k].conf.region)
\* The successful remote resolutions.
RemoteSuccesses == { i \in Resolutions : IsRemote(signer_log[i]) /\ signer_log[i].res = "ok" }

\* C11: what a resolution returns is decided by its own configuration, its own
\* answer from the signing service, and the configurations (not the results) of
\* the resolutions attempted before it: a raw key resolves exactly when it
\* parses, a remote reference exactly when the service answers (with the client
\* of the first remote configuration whose region parses, which may be its own),
\* whether the earlier resolutions succeeded, failed or panicked; get_signer
\* hands out the signer of a success and nothing otherwise.
C11_FailureDoesNotPoison ==
    \A j \in Resolutions :
        LET e == signer_log[j]
            k == FirstRegion(j)
        IN  /\ e.conf.type = "hexKey" =>
                  /\ e.res = (IF e.conf.key_valid THEN "ok" ELSE "err")
                  /\ e.res = "ok" => e.signer = Some(SignersLocal)
            /\ e.conf.type = "aws" =>
                  IF k = None THEN e.res = "panic"
                  ELSE /\ e.res = (IF e.aws_ok THEN "ok" ELSE "err")
                       /\ e.res = "ok" => e.signer = Some(SignersAws(Unwrap(k)))
            /\ e.res # "ok" => e.signer = None
            /\ e.got = e.signer

\* A remote resolution failed, and a later one of another chain succeeded.
C11_Witness ==
    \E i, j \in Resolutions :
        /\ i < j
        /\ IsRemote(signer_log[i]) /\ signer_log[i].res = "err"
        /\ IsRemote(signer_log[j]) /\ signer_log[j].res = "ok"
        /\ signer_log[i].name # signer_log[j].name
        /\ signer_log[i].conf.region # signer_log[j].conf.region

\* C12: over all the resolutions of a process the client is built at most once,
\* by a remote resolution that found the cell empty; the cell holds a client
\* exactly from then on; and every remote resolution after it, of whichever
\* chain, builds nothing, leaves the cell as it is and signs with that client.
C12_ClientCreatedAtMostOnce ==
    /\ Cardinality(Creations) <= 1
    /\ IsSome(kms_client) <=> Creations # {}
    /\ \A i \in Creations :
          /\ IsRemote(signer_log[i])
          /\ signer_log[i].kms_before = None
          /\ kms_client = signer_log[i].kms_after
          /\ \A j \in Resolutions :
                (j > i /\ IsRemote(signer_log[j])) =>
                    /\ ~signer_log[j].created
                    /\ signer_log[j].kms_before = signer_log[i].kms_after
                    /\ signer_log[j].kms_after = signer_log[i].kms_after
                    /\ signer_log[j].res = "ok" =>
                          signer_log[j].signer
                              = Some(SignersAws(Unwrap(signer_log[i].kms_after)))

\* The same remote configuration resolved twice, for two chains, both times with success.
C12_Witness ==
    \E i, j \in Resolutions :
        /\ i < j
        /\ signer_log[i].created
        /\ signer_log[i].res = "ok"
        /\ signer_log[j].res = "ok"
        /\ signer_log[j].conf = signer_log[i].conf
        /\ signer_log[j].name # signer_log[i].name

\* C13, as claimed: the client's region is the region configured for the first
\* remote resolution that succeeded.
C13_FixedByFirstSuccess ==
    \A j \in RemoteSuccesses :
        (\A i \in RemoteSuccesses : j <= i) =>
            kms_client = Some(signer_log[j].conf.region)

\* C13, amended: the client's region is the region configured for the first
\* remote resolution whose region parses, whether or not that resolution then
\* succeeded; once the cell holds a client no step changes it; and a later
\* remote resolution configured with another region, parsable or not, does not
\* panic and signs with the client of the original region.
C13_RegionFixedByFirstCreation ==
    /\ [][IsSome(kms_client) => kms_client' = kms_client]_vars
    /\ [](kms_client = FirstRegion(Len(signer_log)))
    /\ [](\A i \in Creations : \A j \in Resolutions :
              (j > i /\ IsRemote(signer_log[j])
                 /\ signer_log[j].conf.region # signer_log[i].conf.region) =>
                    /\ signer_log[j].res # "panic"
                    /\ signer_log[j].res = "ok" =>
                          Unwrap(signer_log[j].signer).region = signer_log[i].conf.region)

\* A remote resolution succeeded with a client of another region than its own.
C13_Witness ==
    \E j \in RemoteSuccesses :
        /\ IsSome(kms_client)
        /\ signer_log[j].conf.region # Unwrap(kms_client)
        /\ Unwrap(signer_log[j].signer).region = Unwrap(kms_client)

\* C14: every resolution of SignerConf::Node fails with an error (it neither
\* succeeds nor panics), yields no signer, and leaves the cell as it found it,
\* whatever was resolved before.
C14_NodeAlwaysFails ==
    \A j \in Resolutions :
        signer_log[j].conf.type = "node" =>
            /\ signer_log[j].res = "err"
            /\ signer_log[j].signer = None
            /\ signer_log[j].got = None
            /\ ~signer_log[j].created
            /\ signer_log[j].kms_after = signer_log[j].kms_before

\* Node was resolved after a remote resolution had built the client and succeeded.
C14_Witness ==
    \E i, j \in Resolutions :
        /\ i < j
        /\ signer_log[i].created /\ signer_log[i].res = "ok"
        /\ signer_log[j].conf.type = "node"
        /\ IsSome(signer_log[j].kms_before)

(***************************************************************************)
(* Properties of the generators.                                           *)
(***************************************************************************)
Drawn == 1..Len(draws)
Min(a, b) == IF a <= b THEN a ELSE b
\* The bytes of a body are all of the alphanumeric sample.
AllAlphanumeric(body) == \A i \in 1..Len(body) : body[i] \in Alphanumeric

\* C15: of the draws from an OrderedList of N messages that started at cursor
\* 0, the i-th returns the i-th message of the list for i <= N and no body for
\* every i > N; the cursor is the number of bodies returned, so it only grows,
\* stays within 0..N and rests at N from the N-th draw on; the recipient of
\* every draw is the default one.
C15_OrderedListDraws ==
    generator.kind = "OrderedList" =>
        LET N == Len(generator.messages)
        IN  /\ \A i \in Drawn :
                  draws[i].body = (IF i <= N THEN Some(as_bytes(generator.messages[i]))
                                   ELSE None)
            /\ generator.counter = Min(Len(draws), N)
            /\ generator.counter \in 0..N
            /\ \A i \in Drawn : draws[i].recipient = H256Zero

\* A list of 3 messages drawn from 5 times: three bodies, then twice nothing.
C15_Witness ==
    /\ generator.kind = "OrderedList"
    /\ Len(generator.messages) = 3
    /\ Len(draws) = 5
    /\ IsSome(draws[3].body)
    /\ draws[4].body = None
    /\ draws[5].body = None
    /\ generator.counter = 3

\* C16: every draw from a Static generator returns the bytes of the configured
\* message as its body, never no body, and the configured recipient, and
\* leaves the generator as it was configured.
C16_StaticDraws ==
    generator.kind = "Static" =>
        /\ \A i \in Drawn :
              /\ draws[i].body = Some(as_bytes(generator.message))
              /\ draws[i].recipient = generator.recipient
        /\ generator \in Generators
        /\ generator.recipient \in StaticRecipients

\* A Static generator drawn from five times.
C16_Witness ==
    /\ generator.kind = "Static"
    /\ generator.recipient # H256Zero
    /\ Len(draws) = 5
    /\ draws[5].body = draws[1].body
    /\ draws[5].recipient = generator.recipient

\* C17: every draw from a Random generator of length L returns a body, of
\* exactly L bytes, each an alphanumeric character, and a recipient that
\* H256::random() returned for that draw; the generator keeps its length.
C17_RandomDraws ==
    generator.kind = "Random" =>
        /\ \A i \in Drawn :
              /\ IsSome(draws[i].body)
              /\ Len(Unwrap(draws[i].body)) = generator.length
              /\ AllAlphanumeric(Unwrap(draws[i].body))
              /\ draws[i].recipient \in H256Random
        /\ generator \in { GenRandom(l) : l \in 0..MaxLen }

\* Two draws of length 2 that differ in body and in recipient.
C17_Witness ==
    /\ generator.kind = "Random"
    /\ generator.length = 2
    /\ Len(draws) >= 2
    /\ draws[1].body # draws[2].body
    /\ draws[1].recipient # draws[2].recipient

(***************************************************************************)
(* Properties of the loading of an agent's settings.                       *)
(***************************************************************************)
\* The policy of each agent kind.
FixedPolicy(name) ==
    CASE name \in {"Kathy", "Relayer", "Watcher"} ->
            [data_types |-> "Updates", use_timelag |-> FALSE]
      [] name = "Updater" -> [data_types |-> "Updates", use_timelag |-> TRUE]
      [] name = "Processor" -> [data_types |-> "UpdatesAndMessages", use_timelag |-> TRUE]

\* C18: the settings new() returns for Kathy, Relayer and Watcher index Updates
\* with timelag off, for Updater Updates with timelag on, for Processor
\* UpdatesAndMessages with timelag on, whatever the merged sources hold; new()
\* returns them only after all four sources were merged, and before it
\* returns the policy has not been written over what the sources said.
C18_PolicyOverridesSources ==
    /\ new_result = "ok" =>
          /\ agent_name \in {"Kathy", "Updater", "Relayer", "Processor", "Watcher"}
          /\ loaded_index = Some(FixedPolicy(agent_name))
          /\ sources_merged = NumSources
    /\ (new_result = "pending" /\ IsSome(loaded_index)) =>
          /\ sources_merged = NumSources
          /\ loaded_index = Some(try_into(config))

\* Kathy's settings were loaded from sources that ask for messages and timelag.
C18_Witness ==
    /\ new_result = "ok"
    /\ agent_name = "Kathy"
    /\ config = [data_types |-> Some("UpdatesAndMessages"), use_timelag |-> Some(TRUE)]
    /\ loaded_index = Some([data_types |-> "Updates", use_timelag |-> FALSE])

(***************************************************************************)
(* Properties of the cancellation of channel tasks.                        *)
(***************************************************************************)
\* C19: cancel_task! aborts first and awaits second (a handle goes from idle to
\* aborted to returned and no other way, the abort itself changing nothing of
\* the agent); it has returned only when the task is over, having run to its
\* end or having been dropped; a task is dropped only after its abort; a task
\* aborted while suspended at an await takes no further step of its own; and
\* the await's return changes nothing of the agent, whatever the task's
\* result was: the result goes nowhere.
C19_AbortThenAwait ==
    /\ [](\A c \in Channels :
            /\ cancel_pc[c] = "returned" => pc[c] \in {"done", "cancelled"}
            /\ task_result[c] = "cancelled" <=> pc[c] = "cancelled"
            /\ pc[c] = "cancelled" => cancel_pc[c] \in {"aborted", "returned"})
    /\ [](run_all_result = "running" /\ exit_status = "running")
    /\ [][\A c \in Channels :
            cancel_pc'[c] # cancel_pc[c] =>
                /\ \/ cancel_pc[c] = "idle" /\ cancel_pc'[c] = "aborted"
                   \/ cancel_pc[c] = "aborted" /\ cancel_pc'[c] = "returned"
                /\ kathyVars' = kathyVars]_vars
    /\ [][\A c \in Channels :
            (cancel_pc[c] = "aborted" /\ pc[c] \in {"lock", "dispatch", "sleep"}) =>
                /\ pc'[c] \in {pc[c], "cancelled"}
                /\ home_log'[c] = home_log[c]
                /\ messages_dispatched'[c] = messages_dispatched[c]
                /\ home_rejected'[c] = home_rejected[c]]_vars

\* cancel_task! has returned for a task that was dropped and for one that had failed.
C19_Witness ==
    \E c, d \in Channels :
        /\ cancel_pc[c] = "returned" /\ task_result[c] = "cancelled"
        /\ cancel_pc[d] = "returned" /\ task_result[d] = "err"

\* C20: a channel task that was dropped holds no guard, wherever it was
\* dropped, and none once cancel_task! has returned for it; the lock is only ever held by a task that is between its lock()
\* and its drop(guard), and by one at a time; the step that drops an aborted
\* task changes nothing of another channel beyond releasing the lock; and once
\* a task has been dropped every other channel of the agent still runs to its
\* own end.
C20_AbortReleasesLock ==
    /\ [](\A c \in Channels :
            /\ pc[c] = "cancelled" => ~HoldsGuard(c)
            /\ cancel_pc[c] = "returned" => ~HoldsGuard(c)
            /\ HoldsGuard(c) => pc[c] \in {"dispatch", "inc", "drop"}
            /\ dropped_at[c] # "none" <=> pc[c] = "cancelled")
    /\ [](Cardinality(home_lock) <= 1)
    /\ [][\A c \in Channels :
            (pc[c] # "cancelled" /\ pc'[c] = "cancelled") =>
                /\ home_lock' = home_lock \ {c}
                /\ \A d \in Channels \ {c} : ChannelState(d)' = ChannelState(d)]_vars
    /\ (\E c \in Channels : pc[c] = "cancelled") ~>
            (\A d \in Channels : pc[d] \in {"done", "cancelled"})

\* A task was dropped inside home.dispatch, the lock its own; another channel
\* is inside home.dispatch now.
C20_Witness ==
    \E c, d \in Channels :
        /\ c # d
        /\ dropped_at[c] = "dispatch"
        /\ InDispatch(d)
        /\ HoldsGuard(d)

(***************************************************************************)
(* Further properties of the Kathy channels.                               *)
(***************************************************************************)
RECURSIVE SumTo(_, _)
\* f[1] + .. + f[n]
SumTo(f, n) == IF n = 0 THEN 0 ELSE f[n] + SumTo(f, n - 1)
\* The dispatches of all channels that the home accepted.
TotalDispatched == SumTo([c \in Channels |-> Len(home_log[c])], NumChannels)
AllDone == \A c \in Channels : pc[c] = "done"
NoneRejected == \A c \in Channels : home_rejected[c] = 0

\* C22: a channel is built with a clone of the agent's generator as it was
\* configured; a step that changes one channel's generator leaves the
\* generator of every other channel and the agent's own as they were; a
\* channel's OrderedList cursor counts its own draws only; and when all k
\* channels of an agent with a list of N messages have ended with no dispatch
\* rejected, each has dispatched all N, k*N in total.
C22_ChannelOwnsItsGenerator ==
    /\ [][\A c \in Channels :
            channel'[c] # channel[c] =>
                /\ \A d \in Channels \ {c} : channel'[d] = channel[d]
                /\ agent_generator' = agent_generator
                /\ channel[c] = None => Unwrap(channel'[c]).generator = agent_generator]_vars
    /\ [](IsOrderedList =>
            \A c \in Channels :
                IsSome(channel[c]) =>
                    /\ Unwrap(channel[c]).generator.messages = agent_generator.messages
                    /\ Unwrap(channel[c]).generator.counter
                          = Len(home_log[c]) + home_rejected[c]
                              + (IF pc[c] \in {"lock", "dispatch"} THEN 1 ELSE 0))
    /\ []((IsOrderedList /\ AllDone /\ NoneRejected) =>
            /\ \A c \in Channels : Len(home_log[c]) = ListLen
            /\ TotalDispatched = NumChannels * ListLen)

\* One channel has drawn its whole list of 3 while another has drawn nothing yet.
C22_Witness ==
    /\ IsOrderedList
    /\ ListLen = 3
    /\ \E c, d \in Channels :
          /\ c # d
          /\ IsSome(channel[c]) /\ Unwrap(channel[c]).generator.counter = 3
          /\ IsSome(channel[d]) /\ Unwrap(channel[d]).generator.counter = 0
          /\ agent_generator.counter = 0

\* The steps of Kathy::run in the order of its text: a pair (p, q) is a step
\* from position p to the position q that follows it.
RunOrder ==
    { << "unspawned", "draw" >>, << "draw", "lock" >>, << "draw", "done" >>,
      << "lock", "dispatch" >>, << "dispatch", "inc" >>, << "dispatch", "done" >>,
      << "inc", "drop" >>, << "drop", "sleep" >>, << "sleep", "draw" >> }

\* The draws of channel c that returned a body, and its dispatch calls that
\* have returned.
BodiesDrawn(c) == Len(home_log[c]) + home_rejected[c] + (IF IsSome(message[c]) THEN 1 ELSE 0)
DispatchesReturned(c) == Len(home_log[c]) + home_rejected[c]

\* C23: a channel moves only from one position of Kathy::run to the next in
\* the order draw, lock, dispatch, count, drop, sleep, draw; one step moves one
\* channel; the message drawn is held from its draw until its dispatch has
\* returned and the guard is dropped, so a channel never has two messages
\* drawn and not dispatched; the k-th message the home accepts is the message
\* drawn last, appended behind the k-1 accepted before; a sleep begins only
\* after the dispatch before it was counted, and the next draw only from it.
C23_StepsInOrder ==
    /\ [][\A c \in Channels :
            pc'[c] # pc[c] =>
                /\ << pc[c], pc'[c] >> \in RunOrder
                /\ \A d \in Channels \ {c} : pc'[d] = pc[d]]_vars
    /\ [][\A c \in Channels :
            home_log'[c] # home_log[c] =>
                /\ pc[c] = "dispatch" /\ pc'[c] = "inc"
                /\ IsSome(message[c])
                /\ home_log'[c] = Append(home_log[c], Unwrap(message[c]))]_vars
    /\ [][\A c \in Channels :
            (message'[c] # message[c] /\ IsSome(message'[c])) =>
                (pc[c] = "draw" /\ pc'[c] = "lock" /\ message[c] = None)]_vars
    /\ [](\A c \in Channels :
            /\ IsSome(message[c]) <=> pc[c] \in {"lock", "dispatch", "inc", "drop"}
            /\ DispatchesReturned(c) <= BodiesDrawn(c)
            /\ BodiesDrawn(c) <= DispatchesReturned(c) + 1
            /\ pc[c] \in {"sleep", "draw"} => BodiesDrawn(c) = DispatchesReturned(c)
            /\ pc[c] = "sleep" => Len(home_log[c]) >= 1
            /\ messages_dispatched[c] <= Len(home_log[c]))

\* A channel is in its second sleep, two messages dispatched, in the order drawn.
C23_Witness ==
    /\ IsOrderedList
    /\ \E c \in Channels :
          /\ pc[c] = "sleep"
          /\ Len(home_log[c]) = 2
          /\ home_log[c][1].body # home_log[c][2].body
          /\ LogBodies(c) = ListBodies(2)

\* C25: the counter of a channel changes only by one, in a step of that
\* channel taken while it holds home_lock and after its dispatch call returned
\* Ok (the home's log is one ahead of the counter); the step in which a
\* dispatch fails, and every step of another channel, leaves it as it was;
\* the counter is never ahead of the channel's accepted dispatches and equals
\* their number whenever the channel is outside the critical section.
C25_CounterCountsSuccesses ==
    /\ [][\A c \in Channels :
            messages_dispatched'[c] # messages_dispatched[c] =>
                /\ messages_dispatched'[c] = messages_dispatched[c] + 1
                /\ HoldsGuard(c)
                /\ c \in home_lock'
                /\ pc[c] = "inc"
                /\ Len(home_log[c]) = messages_dispatched[c] + 1
                /\ home_log'[c] = home_log[c]
                /\ home_rejected'[c] = home_rejected[c]]_vars
    /\ [][\A c \in Channels :
            home_rejected'[c] # home_rejected[c] =>
                messages_dispatched' = messages_dispatched]_vars
    /\ [](\A c \in Channels :
            /\ messages_dispatched[c] <= Len(home_log[c])
            /\ ~HoldsGuard(c) => messages_dispatched[c] = Len(home_log[c])
            /\ pc[c] \in {"drop", "sleep", "draw", "lock", "done"} =>
                  messages_dispatched[c] = Len(home_log[c]))

\* A channel's third dispatch failed after two had succeeded: the counter is 2.
C25_Witness ==
    \E c \in Channels :
        /\ task_result[c] = "err"
        /\ home_rejected[c] = 1
        /\ Len(home_log[c]) = 2
        /\ messages_dispatched[c] = 2

\* The agent of a finite OrderedList, fairly scheduled.  Whether a task ends
\* depends on the length of the list and not on the bodies in it, so the lists
\* repeat one body.
FiniteGenerators ==
    { GenOrderedList(ms) : ms \in SeqsUpTo({ << 104, 105 >> }, MaxMsgs) }

InitFinite == InitKathy /\ agent_generator \in FiniteGenerators

SpecFinite == InitFinite /\ [][KathyNext]_vars

FairSpecFinite ==
    /\ SpecFinite
    /\ \A c \in Channels : WF_vars(ChannelStep(c))
    /\ WF_vars(RunAllJoin)
    /\ WF_vars(MainExit)

\* C26: with a finite OrderedList, and every dispatch call returning, every
\* channel task of the fairly scheduled agent ends; until all have ended some
\* channel can take a step (the lock deadlocks nothing); and a channel that
\* waits for the lock leaves the wait only by acquiring it, which, its task
\* ending, it does.
C26_FiniteListsTerminate ==
    /\ IsOrderedList ~> AllDone
    /\ []((IsOrderedList /\ ~AllDone) => \E c \in Channels : ENABLED ChannelStep(c))
    /\ [][\A c \in Channels :
            (pc[c] = "lock" /\ pc'[c] # "lock") =>
                (pc'[c] = "dispatch" /\ home_lock = {} /\ home_lock' = {c})]_vars

\* All channels of an agent with a list of 3 have ended, after one of them
\* had waited for the lock; one ended on a rejected dispatch.
C26_Witness ==
    /\ IsOrderedList
    /\ ListLen = 3
    /\ AllDone
    /\ \E c, d \in Channels :
          /\ task_result[c] = "ok" /\ Len(home_log[c]) = 3
          /\ task_result[d] = "err"

(***************************************************************************)
(* Further properties of the assembly.                                     *)
(***************************************************************************)
\* The chains of the settings without an entry in the signers map.
Unsigned(name) == name \notin DOMAIN settings.signers
\* The answers under which nothing but the signer could fail a construction.
CleanEnvs(name) == { e \in ChainEnvs(settings, name) : e.into /\ e.make = "ok" }

\* C27: a chain without an entry in signers is assembled with no signer and
\* that is no error: a home and a replica that were built for such a chain,
\* and their indexers, carry no signer; and wherever the assembly stands, the
\* construction of such a home, or of such an enabled replica, succeeds with
\* no signer when try_into_home / try_into_replica and the indexer's
\* construction succeed, and leaves the KMS client as it was.
C27_UnknownNameHasNoSigner ==
    /\ (IsSome(built_home) /\ Unsigned(settings.home.name)) =>
          /\ Unwrap(built_home).home.signer = None
          /\ Unwrap(built_home).contract_sync.indexer.signer = None
    /\ \A n \in DOMAIN built_replicas :
          Unsigned(n) =>
              /\ built_replicas[n].replica.signer = None
              /\ built_replicas[n].contract_sync.indexer.signer = None
    /\ Unsigned(settings.home.name) =>
          \A e \in CleanEnvs(settings.home.name) :
              LET r == try_caching_home(settings, kms_client, e)
              IN  /\ r.res = "ok"
                  /\ r.kms = kms_client
                  /\ Unwrap(r.value).home.signer = None
                  /\ Unwrap(r.value).contract_sync.indexer.signer = None
    /\ \A k \in EnabledKeys :
          (Unsigned(k) /\ settings.replicas[k].name = k) =>
              \A e \in CleanEnvs(k) :
                  LET r == try_caching_replica(settings, k, kms_client, e)
                  IN  /\ r.res = "ok"
                      /\ r.kms = kms_client
                      /\ Unwrap(r.value).replica.signer = None
                      /\ Unwrap(r.value).contract_sync.indexer.signer = None

\* An assembly succeeded whose home and one of whose replicas have no entry in
\* signers, while another replica has one and was built with its signer.
C27_Witness ==
    /\ core_result = "ok"
    /\ Unsigned(settings.home.name)
    /\ Unwrap(agent_core).home.home.signer = None
    /\ \E n, m \in DOMAIN Unwrap(agent_core).replicas :
          /\ Unsigned(n)
          /\ Unwrap(agent_core).replicas[n].replica.signer = None
          /\ ~Unsigned(m)
          /\ IsSome(Unwrap(agent_core).replicas[m].replica.signer)

(***************************************************************************)
(* IndexSettings::from and IndexSettings::chunk_size (settings/mod.rs:     *)
(* 166-179), as try_home_indexer calls them for the arguments of           *)
(* make_home_indexer (437-438).  A text is the sequence of its bytes.  A   *)
(* u32 is kept in two 16-bit limbs, hi * 2^16 + lo, so that every value of *)
(* the type, and the overflow past the largest one, is within reach.       *)
(***************************************************************************)
LimbBase == 65536

U32(n) == [hi |-> n \div LimbBase, lo |-> n % LimbBase]

\* result.checked_mul(10) and then .checked_add(d): None on overflow.
MulAdd(x, d) ==
    LET lo == x.lo * 10 + d
        hi == x.hi * 10 + (lo \div LimbBase)
    IN  IF hi >= LimbBase THEN None ELSE Some([hi |-> hi, lo |-> lo % LimbBase])

IsDigit(c) == c \in 48..57

\* The loop of u32::from_str over the digits: a byte that is no digit, or an
\* overflow, ends it with an error.
RECURSIVE ParseDigits(_, _)
ParseDigits(digits, acc) ==
    IF digits = << >> THEN Some(acc)
    ELSE IF ~IsDigit(Head(digits)) THEN None
    ELSE LET n == MulAdd(acc, Head(digits) - 48)
         IN  IF n = None THEN None ELSE ParseDigits(Tail(digits), Unwrap(n))

\* s.parse::<u32>().ok(): the empty text and a lone sign are errors, a leading
\* '+' is skipped, and a '-' is no digit of an unsigned type.
parse_u32(s) ==
    IF s = << >> THEN None
    ELSE IF Len(s) = 1 /\ s[1] \in {43, 45} THEN None
    ELSE IF s[1] = 43 THEN ParseDigits(Tail(s), U32(0))
    ELSE ParseDigits(s, U32(0))

\* Option::and_then(|s| s.parse::<u32>().ok())
and_then_parse(o) == IF o = None THEN None ELSE parse_u32(Unwrap(o))

unwrap_or(o, d) == IF o = None THEN d ELSE Unwrap(o)

\* IndexSettings::from: .unwrap_or_default()
from(ix) == unwrap_or(and_then_parse(ix.from), U32(0))

\* A chunk_size that would default as from does.
chunk_size_or_default(ix) == unwrap_or(and_then_parse(ix.chunk), U32(0))

\* IndexSettings::chunk_size: .unwrap_or(1999)
chunk_size(ix) == unwrap_or(and_then_parse(ix.chunk), U32(1999))

\* The text of the decimal digits ds.
Dec(ds) == [i \in DOMAIN ds |-> 48 + ds[i]]

\* The bytes short texts are made of: '+', '-', '0', '7', 'a'.
TextChars == { 43, 45, 48, 55, 97 }

\* Texts about the default, the limb and the largest u32.
LongTexts ==
    { Dec(<< 1, 9, 9, 9 >>),
      Dec(<< 6, 5, 5, 3, 5 >>),
      Dec(<< 6, 5, 5, 3, 6 >>),
      Dec(<< 4, 2, 9, 4, 9, 6, 7, 2, 9, 5 >>),
      Dec(<< 4, 2, 9, 4, 9, 6, 7, 2, 9, 6 >>),
      Dec(<< 4, 2, 9, 4, 9, 6, 7, 3, 0, 0 >>),
      Dec(<< 4, 3, 0, 0, 0, 0, 0, 0, 0, 0 >>),
      Dec(<< 9, 9, 9, 9, 9, 9, 9, 9, 9, 9 >>),
      Dec(<< 0, 4, 2, 9, 4, 9, 6, 7, 2, 9, 5 >>),
      Dec(<< 1, 0, 0, 0, 0, 0, 0, 0, 0, 0, 0 >>),
      Dec(<< 0, 0, 0, 0, 0, 0, 0, 0, 0, 0, 0, 0 >>),
      << 43 >> \o Dec(<< 4, 2, 9, 4, 9, 6, 7, 2, 9, 5 >>),
      Dec(<< 4, 2, 9, 4, 9, 6, 7, 2, 9, 5 >>) \o << 32 >>,
      << 32 >> \o Dec(<< 1, 2 >>),
      Dec(<< 4, 2, 9, 4, 9, 6, 7, 2, 9 >>) \o << 97 >> }

Texts == SeqsUpTo(TextChars, MaxTextLen) \cup LongTexts

OptionalTexts == { None } \cup { Some(t) : t \in Texts }

\* try_home_indexer is about to evaluate the arguments of make_home_indexer.
IndexInit ==
    /\ indexer_args \in [settings : [from : OptionalTexts, chunk : OptionalTexts],
                  pc : {"from"}, from : {None}, chunk_size : {None}]

\* self.index.from()
IndexerFrom ==
    /\ indexer_args.pc = "from"
    /\ indexer_args' = [indexer_args EXCEPT !.from = Some(from(indexer_args.settings)), !.pc = "chunk_size"]
    /\ UNCHANGED << kathyVars, coreVars, signer_log, generator, draws, agent_name,
                    config, sources_merged, new_result, loaded_index, cancel_pc,
                    dropped_at, contract_sync >>

\* self.index.chunk_size()
IndexerChunkSize ==
    /\ indexer_args.pc = "chunk_size"
    /\ indexer_args' = [indexer_args EXCEPT !.chunk_size = Some(chunk_size(indexer_args.settings)),
                              !.pc = "made"]
    /\ UNCHANGED << kathyVars, coreVars, signer_log, generator, draws, agent_name,
                    config, sources_merged, new_result, loaded_index, cancel_pc,
                    dropped_at, contract_sync >>

IndexNext ==
    \/ IndexerFrom
    \/ IndexerChunkSize

InitIndex ==
    /\ IndexInit
    /\ KathyIdle /\ CoreIdle /\ SignerIdle /\ GeneratorIdle /\ LoadIdle /\ CancelIdle
    /\ SyncIdle

SpecIndex == InitIndex /\ [][IndexNext]_vars

(***************************************************************************)
(* Properties of the index settings.                                       *)
(***************************************************************************)
\* The text without the '+' a number may begin with.
Unsigned32Digits(t) == IF t # << >> /\ t[1] = 43 THEN Tail(t) ELSE t

RECURSIVE StripZeros(_)
StripZeros(d) == IF d # << >> /\ Head(d) = 48 THEN StripZeros(Tail(d)) ELSE d

\* Of two texts of digits of one length, a is not the larger number.
NotAbove(a, b) ==
    \/ a = b
    \/ \E i \in DOMAIN a : a[i] < b[i] /\ \A j \in 1..(i - 1) : a[j] = b[j]

\* The text is a decimal numeral of a value up to 4294967295.
IsU32Numeral(t) ==
    LET d == Unsigned32Digits(t)
        c == StripZeros(d)
    IN  /\ d # << >>
        /\ \A i \in DOMAIN d : IsDigit(d[i])
        /\ \/ Len(c) < 10
           \/ Len(c) = 10 /\ NotAbove(c, Dec(<< 4, 2, 9, 4, 9, 6, 7, 2, 9, 5 >>))

\* The decimal digits of a u32, by repeated division; none for zero.
RECURSIVE Decimal(_)
Decimal(x) ==
    IF x.hi = 0 /\ x.lo = 0 THEN << >>
    ELSE LET w == (x.hi % 10) * LimbBase + x.lo
         IN  Append(Decimal([hi |-> x.hi \div 10, lo |-> w \div 10]), 48 + (w % 10))

IsU32(x) == x.hi \in 0..(LimbBase - 1) /\ x.lo \in 0..(LimbBase - 1)

\* What the accessor of a setting with the default `default` is to return.
Expected(setting, default, x) ==
    /\ IsU32(x)
    /\ IF IsSome(setting) /\ IsU32Numeral(Unwrap(setting))
       THEN Decimal(x) = StripZeros(Unsigned32Digits(Unwrap(setting)))
       ELSE x = default

\* C24: from() returns 0 and chunk_size() returns 1999 when the setting is
\* absent or is no decimal numeral of a 32-bit unsigned value, and the value
\* of the numeral otherwise; neither call fails.
C24_DefaultsWhenAbsentOrUnparseable ==
    /\ indexer_args.pc \in {"chunk_size", "made"} =>
          /\ IsSome(indexer_args.from)
          /\ Expected(indexer_args.settings.from, [hi |-> 0, lo |-> 0], Unwrap(indexer_args.from))
    /\ indexer_args.pc = "made" =>
          /\ IsSome(indexer_args.chunk_size)
          /\ Expected(indexer_args.settings.chunk, [hi |-> 0, lo |-> 1999],
                      Unwrap(indexer_args.chunk_size))

\* The start height is one past the largest u32 and from() returned 0; the
\* chunk size is the largest u32 and chunk_size() returned it.
C24_Witness ==
    /\ indexer_args.pc = "made"
    /\ indexer_args.settings.from = Some(Dec(<< 4, 2, 9, 4, 9, 6, 7, 2, 9, 6 >>))
    /\ indexer_args.from = Some([hi |-> 0, lo |-> 0])
    /\ indexer_args.settings.chunk = Some(Dec(<< 4, 2, 9, 4, 9, 6, 7, 2, 9, 5 >>))
    /\ indexer_args.chunk_size = Some([hi |-> LimbBase - 1, lo |-> LimbBase - 1])

(***************************************************************************)
(* ContractSync and its EventStore.  Settings::try_home_contract_sync      *)
(* (settings/mod.rs:296-319) builds the ContractSync from the indexer, the *)
(* NomadDB of the chain and the IndexSettings; the loop it runs is         *)
(* specified, not part of these sources: chunks of chunk_size blocks from  *)
(* `from`, every fetched event persisted, de-duplicated, into the store,   *)
(* and the cursor advanced after the persistence.  A crash loses what is   *)
(* in memory and keeps the database.                                       *)
(***************************************************************************)
\* The chain's blocks are 0..MaxBlock; an event is << block, number in the block >>.
MaxBlock == 3
MaxEventsPerBlock == 1
MaxChunk == 2
MaxCrashes == 2

Blocks == 0..MaxBlock

EventsOf(chain, b) == { << b, i >> : i \in 1..chain[b] }

\* Every event a chain of the model can hold.
AllEvents == { << b, i >> : b \in Blocks, i \in 1..MaxEventsPerBlock }

\* The events of the blocks lo..hi, in the order of the chain.
RECURSIVE EventsIn(_, _, _)
EventsIn(chain, lo, hi) ==
    IF lo > hi THEN << >>
    ELSE [i \in 1..chain[lo] |-> << lo, i >>] \o EventsIn(chain, lo + 1, hi)

\* A store that would keep every delivery.
PutAgain(store, ev) == Append(store, ev)

\* The store keeps an event it already holds once.
Put(store, ev) ==
    IF \E i \in DOMAIN store : store[i] = ev THEN store ELSE Append(store, ev)

\* The cursor the loop starts from: the persisted one, or `from`.
StartFrom(cs) == IF IsSome(cs.cursor) THEN Unwrap(cs.cursor) ELSE cs.from

\* ContractSync::new(.., nomad_db, indexer, index_settings, ..) on an empty store.
SyncInit ==
    /\ contract_sync \in
          { [from |-> f, chunk_size |-> k, chain |-> ch,
             cursor |-> None, store |-> << >>,
             pc |-> "fetch", next |-> f, hi |-> f, fetched |-> << >>,
             delivered |-> [ev \in AllEvents |-> 0], crashes |-> 0] :
             f \in 0..1, k \in 1..MaxChunk, ch \in [Blocks -> 0..MaxEventsPerBlock] }

\* A fetch that would record the chunk as done before it is persisted.
FetchAdvancing ==
    /\ contract_sync.pc = "fetch"
    /\ contract_sync.next <= MaxBlock
    /\ LET cs == contract_sync
           hi == Min(cs.next + cs.chunk_size - 1, MaxBlock)
       IN  contract_sync' = [cs EXCEPT !.pc = "persist", !.hi = hi,
                                       !.fetched = EventsIn(cs.chain, cs.next, hi),
                                       !.cursor = Some(hi + 1)]
    /\ UNCHANGED << kathyVars, coreVars, signer_log, generator, draws, agent_name,
                    config, sources_merged, new_result, loaded_index, cancel_pc,
                    dropped_at, indexer_args >>

\* The indexer returns the events of the next chunk_size blocks.
Fetch ==
    /\ contract_sync.pc = "fetch"
    /\ contract_sync.next <= MaxBlock
    /\ LET cs == contract_sync
           hi == Min(cs.next + cs.chunk_size - 1, MaxBlock)
       IN  contract_sync' = [cs EXCEPT !.pc = "persist", !.hi = hi,
                                       !.fetched = EventsIn(cs.chain, cs.next, hi)]
    /\ UNCHANGED << kathyVars, coreVars, signer_log, generator, draws, agent_name,
                    config, sources_merged, new_result, loaded_index, cancel_pc,
                    dropped_at, indexer_args >>

\* One fetched event is written to the store.
Persist ==
    /\ contract_sync.pc = "persist"
    /\ contract_sync.fetched # << >>
    /\ LET cs == contract_sync
           ev == Head(cs.fetched)
       IN  contract_sync' = [cs EXCEPT !.store = Put(cs.store, ev),
                                       !.fetched = Tail(cs.fetched),
                                       !.delivered[ev] = @ + 1]
    /\ UNCHANGED << kathyVars, coreVars, signer_log, generator, draws, agent_name,
                    config, sources_merged, new_result, loaded_index, cancel_pc,
                    dropped_at, indexer_args >>

\* The chunk is persisted: the cursor is stored past it.
Advance ==
    /\ contract_sync.pc = "persist"
    /\ contract_sync.fetched = << >>
    /\ LET cs == contract_sync
       IN  contract_sync' = [cs EXCEPT !.cursor = Some(cs.hi + 1), !.next = cs.hi + 1,
                                       !.pc = "fetch"]
    /\ UNCHANGED << kathyVars, coreVars, signer_log, generator, draws, agent_name,
                    config, sources_merged, new_result, loaded_index, cancel_pc,
                    dropped_at, indexer_args >>

\* The process dies and is started again: it resumes from the stored cursor.
Crash ==
    /\ contract_sync.pc \in {"fetch", "persist"}
    /\ contract_sync.crashes < MaxCrashes
    /\ LET cs == contract_sync
       IN  contract_sync' = [cs EXCEPT !.pc = "fetch", !.next = StartFrom(cs),
                                       !.hi = StartFrom(cs), !.fetched = << >>,
                                       !.crashes = @ + 1]
    /\ UNCHANGED << kathyVars, coreVars, signer_log, generator, draws, agent_name,
                    config, sources_merged, new_result, loaded_index, cancel_pc,
                    dropped_at, indexer_args >>

SyncNext ==
    \/ Fetch
    \/ Persist
    \/ Advance
    \/ Crash

InitSync ==
    /\ SyncInit
    /\ KathyIdle /\ CoreIdle /\ SignerIdle /\ GeneratorIdle /\ LoadIdle /\ CancelIdle
    /\ IndexIdle

SpecSync == InitSync /\ [][SyncNext]_vars

(***************************************************************************)
(* Properties of the ContractSync.                                         *)
(***************************************************************************)
\* How often the visible state of the store holds the event.
Visible(ev) ==
    Cardinality({ i \in DOMAIN contract_sync.store : contract_sync.store[i] = ev })

\* The events of the blocks below the stored cursor.
Synced ==
    UNION { EventsOf(contract_sync.chain, b) :
              b \in contract_sync.from..(StartFrom(contract_sync) - 1) }

\* The events of the chunk in memory that are not yet written.
Unwritten == { contract_sync.fetched[i] : i \in DOMAIN contract_sync.fetched }

\* C21: the stored cursor is only ever past blocks whose events are all in
\* the store, each delivered at least once and visible exactly once; the loop
\* in memory never stands elsewhere than at the stored cursor, so a restart
\* after a crash fetches again the chunk that was being persisted; and the
\* store holds no event twice and none that was not delivered.
C21_CursorAfterPersistence ==
    /\ \A ev \in Synced :
          contract_sync.delivered[ev] >= 1 /\ Visible(ev) = 1
    /\ contract_sync.next = StartFrom(contract_sync)
    /\ contract_sync.pc = "persist" =>
          \A b \in contract_sync.next..contract_sync.hi :
             \A ev \in EventsOf(contract_sync.chain, b) :
                ev \in Unwritten \/ Visible(ev) = 1
    /\ \A ev \in AllEvents :
          /\ Visible(ev) <= 1
          /\ Visible(ev) = 1 <=> contract_sync.delivered[ev] >= 1
          /\ Visible(ev) = 1 => ev \in EventsOf(contract_sync.chain, ev[1])

\* After a crash in the middle of a chunk, the chunk was delivered again: an
\* event below the stored cursor was written twice and is visible once.
C21_Witness ==
    /\ contract_sync.pc = "fetch"
    /\ contract_sync.crashes >= 1
    /\ \E ev \in Synced :
          contract_sync.delivered[ev] = 2 /\ Visible(ev) = 1

====
